---- MODULE Spec2Model ----
(***************************************************************************)
(* Model of the 858 Random Spread Layout programs.                         *)
(*                                                                         *)
(* Lengths are exact: every pixel quantity is carried as an integer number *)
(* of 1/PX pixel, so that halves of a board (column widths) and the        *)
(* products w * rng(a, b) of the layouts are represented without rounding, *)
(* and Math.floor is an explicit operation (FloorPx).                      *)
(* Math.random() is a choice among the fractions k / RandSteps.            *)
(***************************************************************************)
EXTENDS Integers, Sequences, FiniteSets, TLC

\* Math.random() is sampled at 0/RandSteps .. (RandSteps-1)/RandSteps.
RandSteps == 2
\* At most this many images are on the spread.
MaxItems == 2
\* At most this many resize gestures are made.
MaxResizes == 1

\* Model units per pixel; a multiple of 40 * RandSteps keeps
\* (BOARD_W - gutter) / 2 * (0.6 + 0.15 * k / RandSteps) integral.
PX == 40 * RandSteps

VARIABLES
  BOARD_W,   \* App.jsx: board width  (useState(DEFAULT_W))
  BOARD_H,   \* App.jsx: board height (useState(DEFAULT_H))
  boards,    \* number of boards
  spacing,   \* minimum gap between items
  images,    \* the images list (paint order)
  resizes,   \* pointer gestures (resize, drag) made so far
  lastOp,    \* the operation that produced this state
  accepted,  \* ids accepted by the retry loop or the grid scan of lastOp
  drawn,     \* the drawImage calls of the last export, in the order made
  selectedId, \* id of the selected item (useState(null))
  run,       \* the placement strategy being executed and its loop variables
  boardsHalf, \* 1 when the boards state is boards + 1/2 (a fractional number), else 0
  slot,      \* the preset slot kept in localStorage ("a58_presets")
  firstTry,  \* ids the last scatter accepted at the first attempt made for them
  gesture,   \* the pointer gesture in progress: its move handler and the node it captured
  calls,     \* the canvas calls exportBoards (App.jsx) has made when it is lastOp, in order
  loaded     \* ids of the items whose useImageElement has decoded the source (imgEl is set)

vars ==
  <<BOARD_W, BOARD_H, boards, spacing, images, resizes, lastOp, accepted, drawn,
    selectedId, run, boardsHalf, slot, firstTry, gesture, calls,
    loaded>>

----------------------------------------------------------------------------
(* UTILS *)

Max(a, b) == IF a >= b THEN a ELSE b
Min(a, b) == IF a <= b THEN a ELSE b

\* Math.floor on a length: down to a whole pixel.
FloorPx(v) == (v \div PX) * PX

\* const clamp = (v, a, b) => Math.max(a, Math.min(b, v));
clamp(v, a, b) == Max(a, Min(b, v))

\* rng(min, max) = min + Math.random() * (max - min), with Math.random() = k / RandSteps
rng(min, max, k) == min + (k * (max - min)) \div RandSteps

RandIdx == 0 .. (RandSteps - 1)

rectsOverlapWithMargin(a, b, margin) ==
  ~ (  a.x + a.w + margin <= b.x
    \/ b.x + b.w + margin <= a.x
    \/ a.y + a.h + margin <= b.y
    \/ b.y + b.h + margin <= a.y )

SPREAD_W == boards * BOARD_W
SPREAD_H == BOARD_H

Ids(arr) == {arr[i].id : i \in DOMAIN arr}

Last(s) == s[Len(s)]

SetMin(S) == CHOOSE m \in S : \A n \in S : m <= n

\* localStorage without a saved preset
NoSlot == [saved |-> FALSE, boards |-> 0, boardsHalf |-> 0, BOARD_W |-> 0, BOARD_H |-> 0]

\* no pointer is down on an item
NoGesture == [kind |-> "none", dir |-> "none", node |-> [id |-> 0]]

\* no placement strategy is executing
RunIdle ==
  [op |-> "idle", todo |-> <<>>, placed |-> <<>>, out |-> <<>>, acc |-> {},
   phase |-> "none", t |-> 0, b |-> 0, y |-> 0, x |-> 0]

\* selectedId when nothing is selected (normalizeImages drops an item whose id
\* is falsy, so no item has this id)
null == 0

\* a geometry field a preset item does not carry (undefined)
NoValue == -1000000

\* v ?? d
OrElse(v, d) == IF v = NoValue THEN d ELSE v

----------------------------------------------------------------------------
(* DEDUPE + CLAMP PIPE *)

\* de-dupe by id (keep first); an item without an id (0 is falsy) is skipped
RECURSIVE DedupById(_, _)
DedupById(arr, seen) ==
  IF arr = <<>> THEN <<>>
  ELSE LET n == Head(arr) IN
       IF n.id = 0 \/ n.id \in seen
         THEN DedupById(Tail(arr), seen)
         ELSE <<n>> \o DedupById(Tail(arr), seen \cup {n.id})

\* a variant that clamps the origin against the size the item came with
clampToBoardRawSize(n) ==
  LET w == clamp(OrElse(n.w, 20 * PX), 20 * PX, SPREAD_W)
      h == clamp(OrElse(n.h, 20 * PX), 20 * PX, SPREAD_H)
      boardIdx == clamp(OrElse(n.x, 0) \div BOARD_W, 0, boards - 1)
      boardStart == boardIdx * BOARD_W
      boardEnd == boardStart + BOARD_W
      x == clamp(OrElse(n.x, 0), boardStart, boardEnd - OrElse(n.w, 20 * PX))
      y == clamp(OrElse(n.y, 0), 0, BOARD_H - OrElse(n.h, 20 * PX))
  IN [n EXCEPT !.x = x, !.y = y, !.w = w, !.h = h]

\* a variant whose clamp is Math.min(Math.max(v, a), b)
clampToBoardMinLast(n) ==
  LET w == clamp(OrElse(n.w, 20 * PX), 20 * PX, SPREAD_W)
      h == clamp(OrElse(n.h, 20 * PX), 20 * PX, SPREAD_H)
      boardIdx == clamp(OrElse(n.x, 0) \div BOARD_W, 0, boards - 1)
      boardStart == boardIdx * BOARD_W
      boardEnd == boardStart + BOARD_W
      x == Min(Max(OrElse(n.x, 0), boardStart), boardEnd - w)
      y == Min(Max(OrElse(n.y, 0), 0), BOARD_H - h)
  IN [n EXCEPT !.x = x, !.y = y, !.w = w, !.h = h]

\* clamp each to its current board
clampToBoard(n) ==
  LET w == clamp(OrElse(n.w, 20 * PX), 20 * PX, SPREAD_W)
      h == clamp(OrElse(n.h, 20 * PX), 20 * PX, SPREAD_H)
      \* find current board by x
      boardIdx == clamp(OrElse(n.x, 0) \div BOARD_W, 0, boards - 1)
      boardStart == boardIdx * BOARD_W
      boardEnd == boardStart + BOARD_W
      x == clamp(OrElse(n.x, 0), boardStart, boardEnd - w)
      y == clamp(OrElse(n.y, 0), 0, BOARD_H - h)
  IN [n EXCEPT !.x = x, !.y = y, !.w = w, !.h = h]

normalizeImages(arr) ==
  LET dedup == DedupById(arr, {})
  IN [i \in DOMAIN dedup |-> clampToBoard(dedup[i])]

----------------------------------------------------------------------------
(* STATE AFTER CONSTRUCTION, FILES, POINTER *)

\* geometry of the items of a preset file, in pixels: as dropped; resized wider than
\* a board; on the second board and taller than a board; hand-edited: narrower than
\* the minimum at the right edge of the first board, above the spread, no height
RawShapes ==
  { [x |-> 40 * PX, y |-> 40 * PX, w |-> 56 * PX, h |-> 36 * PX],
    [x |-> 40 * PX, y |-> 40 * PX, w |-> 256 * PX, h |-> 100 * PX],
    [x |-> 240 * PX, y |-> 0, w |-> 150 * PX, h |-> 1000 * PX],
    [x |-> 195 * PX, y |-> -(30 * PX), w |-> 10 * PX, h |-> NoValue] }

RawItems ==
  { [id |-> i, x |-> s.x, y |-> s.y, w |-> s.w, h |-> s.h] : i \in 0 .. MaxItems, s \in RawShapes }

\* data.images of a preset file: any list, ids repeated or missing
RawLists == UNION { [1 .. n -> RawItems] : n \in 0 .. MaxItems }

\* A validated configuration (the W and H inputs clamp to 200..8000, Boards to
\* 1..20, Spacing to 0..300) and the images of a preset file just loaded:
\* presetLoad's setImages(data.images).
Init ==
  /\ BOARD_W = 200 * PX
  /\ BOARD_H = 200 * PX
  /\ boards \in {1, 2}
  /\ spacing \in {0, 24 * PX, 300 * PX}
  /\ \E data \in RawLists : images = normalizeImages(data)
  /\ resizes = 0
  /\ selectedId = null
  /\ run = RunIdle
  /\ boardsHalf = 0
  /\ slot = NoSlot
  /\ firstTry = {}
  /\ gesture = NoGesture
  /\ loaded = {}
  /\ calls = <<>>
  /\ lastOp = "load"
  /\ accepted = {}
  /\ drawn = <<>>

FreshId == CHOOSE i \in 1 .. (MaxItems + 1) : i \notin Ids(images)

\* onDropFiles: one image file is added
onDropFiles ==
  /\ Len(images) < MaxItems
  /\ \E k \in RandIdx :
       LET w == FloorPx((BOARD_W * 28) \div 100)
           h == FloorPx(rng(w * 65, w * 120, k) \div 100)
           node == [id |-> FreshId, x |-> 40 * PX, y |-> 40 * PX, w |-> w, h |-> h]
       IN images' = normalizeImages(Append(images, node))
  /\ lastOp' = "add"
  /\ accepted' = {}
  /\ UNCHANGED <<loaded, calls, firstTry, gesture, boardsHalf, slot, run, drawn, BOARD_W, BOARD_H, boards, spacing, resizes, selectedId>>

\* ImageNode.startResize -> onMove: the node after one pointer move of (dx, dy)
\* with corner handle dir
Resized(node, dir, dx, dy) ==
  LET east == dir \in {"ne", "se"}
      south == dir \in {"sw", "se"}
      west == dir \in {"nw", "sw"}
      north == dir \in {"nw", "ne"}
      w0 == IF west THEN clamp(node.w - dx, 20 * PX, 99999 * PX)
            ELSE IF east THEN clamp(node.w + dx, 20 * PX, 99999 * PX)
            ELSE node.w
      h0 == IF north THEN clamp(node.h - dy, 20 * PX, 99999 * PX)
            ELSE IF south THEN clamp(node.h + dy, 20 * PX, 99999 * PX)
            ELSE node.h
      x0 == IF west THEN node.x + dx ELSE node.x
      y0 == IF north THEN node.y + dy ELSE node.y
      \* clamp to spread bounds
      w == Min(w0, SPREAD_W - x0)
      h == Min(h0, BOARD_H - y0)
      x == clamp(x0, 0, SPREAD_W - w)
      y == clamp(y0, 0, BOARD_H - h)
  IN [node EXCEPT !.x = x, !.y = y, !.w = w, !.h = h]

\* pointer displacements (dx, dy) of one move: far to the right; up and to the left
PointerMoves == { <<200 * PX, 0>>, <<-(40 * PX), -(40 * PX)>> }

\* onChange(next): setImages((prev) => prev.map((x) => (x.id === n.id ? next : x)))
startResize ==
  /\ resizes < MaxResizes
  /\ resizes' = resizes + 1
  /\ \E i \in DOMAIN images, dir \in {"nw", "ne", "sw", "se"},
        d \in PointerMoves :
       images' = normalizeImages([images EXCEPT ![i] = Resized(images[i], dir, d[1], d[2])])
  /\ lastOp' = "resize"
  /\ accepted' = {}
  /\ UNCHANGED <<loaded, calls, firstTry, gesture, boardsHalf, slot, run, drawn, BOARD_W, BOARD_H, boards, spacing, selectedId>>

\* setImages((prev) => prev): triggers normalizeImages via setter
fixBounds ==
  /\ images' = normalizeImages(images)
  /\ lastOp' = "fixBounds"
  /\ accepted' = {}
  /\ UNCHANGED <<loaded, calls, firstTry, gesture, boardsHalf, slot, run, drawn, BOARD_W, BOARD_H, boards, spacing, resizes, selectedId>>

----------------------------------------------------------------------------
(* LAYOUT OPS *)

\* a scan step without the floor of 8
stepNoFloor == spacing

\* the scan step: Math.max(8, spacing)
step == Max(8 * PX, spacing)

\* for (let y = 0; y <= BOARD_H - h; y += step)
GridY(h) == {k * step : k \in 0 .. ((BOARD_H - h) \div step)}
\* for (let x = boardStart; x <= boardStart + BOARD_W - w; x += step)
GridX(b, w) == {b * BOARD_W + k * step : k \in 0 .. ((BOARD_W - w) \div step)}

\* a variant that tests the rectangles without the margin
IsFreeNoMargin(c, placed) ==
  \A i \in DOMAIN placed : ~ rectsOverlapWithMargin(c, placed[i], 0)

\* !placed.some((p) => rectsOverlapWithMargin(c, p, spacing))
IsFree(c, placed) ==
  \A i \in DOMAIN placed : ~ rectsOverlapWithMargin(c, placed[i], spacing)

\* a variant of the grid scan that moves an item without a free origin to the
\* top left corner of the spread
scanOrOrigin(node, placed) ==
  LET At(x, y) == [node EXCEPT !.x = x, !.y = y]
      free == {p \in (UNION {GridX(b, node.w) : b \in 0 .. (boards - 1)}) \X GridY(node.h) :
                 IsFree(At(p[1], p[2]), placed)}
  IN IF free = {} THEN [found |-> FALSE, node |-> At(0, 0)]
     ELSE LET y0 == SetMin({p[2] : p \in free})
          IN [found |-> TRUE, node |-> At(SetMin({p[1] : p \in {q \in free : q[2] = y0}}), y0)]

\* the grid scan of packLayout (and of randomiseLayout's fallback, the same loops):
\* the first free origin in the order board, then y, then x; found = FALSE when
\* none is free
scan(node, placed) ==
  LET At(x, y) == [node EXCEPT !.x = x, !.y = y]
      ys == GridY(node.h)
      bs == {b \in 0 .. (boards - 1) :
               \E y \in ys, x \in GridX(b, node.w) : IsFree(At(x, y), placed)}
  IN IF bs = {} THEN [found |-> FALSE, node |-> node]
     ELSE LET b0 == SetMin(bs)
              y0 == SetMin({y \in ys : \E x \in GridX(b0, node.w) : IsFree(At(x, y), placed)})
              x0 == SetMin({x \in GridX(b0, node.w) : IsFree(At(x, y0), placed)})
          IN [found |-> TRUE, node |-> At(x0, y0)]

\* the candidates the retry loop of attemptPlace can draw for a node
Candidates(node) ==
  { [node EXCEPT
       !.x = FloorPx(rng(b * BOARD_W, b * BOARD_W + BOARD_W - node.w, kx)),
       !.y = FloorPx(rng(0, BOARD_H - node.h, ky))]
    : b \in 0 .. (boards - 1), kx \in RandIdx, ky \in RandIdx }

\* prev.map((n) => attemptPlace(n)): every result the maxTries = 400 draws of each
\* item can give. An item is accepted at any free candidate; when some candidate is
\* not free all 400 draws may miss, and the fallback scan decides; when that finds
\* nothing the result is placed[placed.length - 1] || node.
RECURSIVE attemptPlaceAll(_, _, _, _)
attemptPlaceAll(todo, placed, out, acc) ==
  IF todo = <<>> THEN {[out |-> out, acc |-> acc]}
  ELSE
    LET node == Head(todo)
        free == {c \in Candidates(node) : IsFree(c, placed)}
        byLoop == UNION { attemptPlaceAll(Tail(todo), Append(placed, c), Append(out, c),
                                          acc \cup {c.id}) : c \in free }
        s == scan(node, placed)
        byScan ==
          IF free = Candidates(node) THEN {}
          ELSE IF s.found
            THEN attemptPlaceAll(Tail(todo), Append(placed, s.node), Append(out, s.node),
                                 acc \cup {node.id})
            ELSE attemptPlaceAll(Tail(todo), placed,
                                 Append(out, IF placed # <<>> THEN Last(placed) ELSE node),
                                 acc)
    IN byLoop \cup byScan

randomiseLayout ==
  /\ images # <<>>
  /\ \E r \in attemptPlaceAll(images, <<>>, <<>>, {}) :
       /\ images' = normalizeImages(r.out)
       /\ accepted' = r.acc
  /\ lastOp' = "randomise"
  /\ UNCHANGED <<loaded, calls, firstTry, gesture, boardsHalf, slot, run, drawn, BOARD_W, BOARD_H, boards, spacing, resizes, selectedId>>

\* insert n after every element whose area is >= its own (stable, descending)
RECURSIVE InsertByArea(_, _)
InsertByArea(sorted, n) ==
  IF sorted = <<>> THEN <<n>>
  ELSE IF Head(sorted).w * Head(sorted).h >= n.w * n.h
    THEN <<Head(sorted)>> \o InsertByArea(Tail(sorted), n)
    ELSE <<n>> \o sorted

\* [...prev].sort((a, b) => b.w * b.h - a.w * a.h)
RECURSIVE sortByArea(_)
sortByArea(arr) ==
  IF arr = <<>> THEN <<>>
  ELSE InsertByArea(sortByArea(SubSeq(arr, 1, Len(arr) - 1)), Last(arr))

\* sorted.map(scan) of packLayout, with the ids the scan accepted; an item with no
\* free position is pushed and returned as it is
RECURSIVE packAll(_, _, _, _)
packAll(todo, placed, out, acc) ==
  IF todo = <<>> THEN [out |-> out, acc |-> acc]
  ELSE LET s == scan(Head(todo), placed)
       IN packAll(Tail(todo), Append(placed, s.node), Append(out, s.node),
                  IF s.found THEN acc \cup {s.node.id} ELSE acc)

packLayout ==
  /\ images # <<>>
  /\ LET r == packAll(sortByArea(images), <<>>, <<>>, {})
     IN /\ images' = normalizeImages(r.out)
        /\ accepted' = r.acc
  /\ lastOp' = "pack"
  /\ UNCHANGED <<loaded, calls, firstTry, gesture, boardsHalf, slot, run, drawn, BOARD_W, BOARD_H, boards, spacing, resizes, selectedId>>

\* the (board, column) with the smallest running height, the first one in the
\* order board, then column (the loops replace the best only on a strict <)
bestSlot(track, cols) ==
  LET slots == (0 .. (boards - 1)) \X (0 .. (cols - 1))
      low == SetMin({track[s] : s \in slots})
      b0 == SetMin({s[1] : s \in {t \in slots : track[t] = low}})
      c0 == SetMin({s[2] : s \in {t \in slots : t[1] = b0 /\ track[t] = low}})
  IN <<b0, c0>>

zeroTrack(cols) == [s \in (0 .. (boards - 1)) \X (0 .. (cols - 1)) |-> 0]

\* packBottom: Math.max(2, Math.floor(BOARD_W / Math.max(220, BOARD_W * 0.28)))
packBottomCols == Max(2, (100 * BOARD_W) \div Max(22000 * PX, 28 * BOARD_W))

RECURSIVE packBottomAll(_, _, _)
packBottomAll(todo, colHeights, out) ==
  IF todo = <<>> THEN out
  ELSE
    LET n == Head(todo)
        colW == BOARD_W \div packBottomCols
        best == bestSlot(colHeights, packBottomCols)
        bestH == colHeights[best]
        boardStart == best[1] * BOARD_W
        w == Min(n.w, colW)
        h == n.h
        x == FloorPx((2 * boardStart + 2 * best[2] * colW + (colW - w)) \div 2)
        y == FloorPx(bestH)
        c == [n EXCEPT !.x = clamp(x, boardStart, boardStart + BOARD_W - w),
                       !.y = clamp(y, 0, BOARD_H - h), !.w = w, !.h = h]
    IN packBottomAll(Tail(todo), [colHeights EXCEPT ![best] = @ + h + spacing],
                     Append(out, c))

packBottom ==
  /\ images # <<>>
  /\ images' = normalizeImages(packBottomAll(images, zeroTrack(packBottomCols), <<>>))
  /\ lastOp' = "packBottom"
  /\ accepted' = {}
  /\ UNCHANGED <<loaded, calls, firstTry, gesture, boardsHalf, slot, run, drawn, BOARD_W, BOARD_H, boards, spacing, resizes, selectedId>>

\* Math.max(2, Math.floor(BOARD_W / (BOARD_W * 0.9)))
columnsPerBoard == Max(2, (10 * BOARD_W) \div (9 * BOARD_W))

\* the column masonry of editorialSpaced (gutter = spacing) and editorialSeamless
\* (gutter = 0); ks[i] is the Math.random() of the i-th item's height
RECURSIVE editorialAll(_, _, _, _, _, _)
editorialAll(todo, ks, gutter, colW, yTrack, out) ==
  IF todo = <<>> THEN out
  ELSE
    LET n == Head(todo)
        best == bestSlot(yTrack, columnsPerBoard)
        boardStart == best[1] * BOARD_W
        w == colW
        h == Max(120 * PX, rng(w * 60, w * 75, Head(ks)) \div 100)
        x == FloorPx(boardStart + best[2] * (colW + gutter))
        y == FloorPx(yTrack[best])
        c == [n EXCEPT !.x = x, !.y = y, !.w = w, !.h = h]
    IN editorialAll(Tail(todo), Tail(ks), gutter, colW,
                    [yTrack EXCEPT ![best] = @ + h + gutter], Append(out, c))

editorialSpaced ==
  /\ images # <<>>
  /\ LET gutter == spacing
         colW == (BOARD_W - (columnsPerBoard - 1) * gutter) \div columnsPerBoard
     IN \E ks \in [1 .. Len(images) -> RandIdx] :
          images' = normalizeImages(
                      editorialAll(images, ks, gutter, colW, zeroTrack(columnsPerBoard), <<>>))
  /\ lastOp' = "editorialSpaced"
  /\ accepted' = {}
  /\ UNCHANGED <<loaded, calls, firstTry, gesture, boardsHalf, slot, run, drawn, BOARD_W, BOARD_H, boards, spacing, resizes, selectedId>>

editorialSeamless ==
  /\ images # <<>>
  /\ LET colW == BOARD_W \div columnsPerBoard
         gutter == 0
     IN \E ks \in [1 .. Len(images) -> RandIdx] :
          images' = normalizeImages(
                      editorialAll(images, ks, gutter, colW, zeroTrack(columnsPerBoard), <<>>))
  /\ lastOp' = "editorialSeamless"
  /\ accepted' = {}
  /\ UNCHANGED <<loaded, calls, firstTry, gesture, boardsHalf, slot, run, drawn, BOARD_W, BOARD_H, boards, spacing, resizes, selectedId>>

----------------------------------------------------------------------------
(* IMAGE LOADER, COVER-FIT CROP OPS FOR CANVAS EXPORT *)

\* naturalWidth x naturalHeight of the image files, in image pixels: a panorama, a
\* portrait, and a file that decodes without an intrinsic size
NaturalSizes == { <<400, 100>>, <<100, 200>>, <<0, 0>> }

\* node._imageEl before useImageElement has decoded node.src: the field is
\* absent.  attached: node._imageEl is truthy; live: it is the Image element
\* that useImageElement decoded in this session
NoImageEl ==
  [attached |-> FALSE, live |-> FALSE, naturalWidth |-> 0, naturalHeight |-> 0]

\* node._imageEl of an item read back from a preset that presetDownload or
\* savePresetSlot wrote after the item was decoded: JSON.stringify writes the
\* Image element as {}, an object that is truthy and has no naturalWidth
JsonImageEl ==
  [attached |-> TRUE, live |-> FALSE, naturalWidth |-> 0, naturalHeight |-> 0]

\* the items of a preset file with their image files, saved before (e = NoImageEl)
\* or after (e = JsonImageEl) the images were decoded
FileItems(e) ==
  { [x |-> s.x, y |-> s.y, w |-> s.w, h |-> s.h,
     src |-> [naturalWidth |-> z[1], naturalHeight |-> z[2]], imageEl |-> e]
    : s \in RawShapes, z \in NaturalSizes }

\* the images array of a preset file: distinct ids, in ascending or descending
\* order along the list
FileLists ==
  UNION { { [k \in 1 .. n |->
              [id |-> IF desc THEN n + 1 - k ELSE k,
               x |-> f[k].x, y |-> f[k].y, w |-> f[k].w, h |-> f[k].h,
               src |-> f[k].src, imageEl |-> f[k].imageEl]]
            : f \in [1 .. n -> FileItems(e)] }
          : n \in 0 .. MaxItems, e \in {NoImageEl, JsonImageEl}, desc \in BOOLEAN }

\* a preset with image files just loaded, no image decoded yet in this session
InitExport ==
  /\ BOARD_W = 200 * PX
  /\ BOARD_H = 200 * PX
  /\ boards \in {1, 2}
  /\ spacing = 24 * PX
  /\ \E data \in FileLists : images = normalizeImages(data)
  /\ resizes = 0
  /\ selectedId = null
  /\ run = RunIdle
  /\ boardsHalf = 0
  /\ slot = NoSlot
  /\ firstTry = {}
  /\ gesture = NoGesture
  /\ loaded = {}
  /\ calls = <<>>
  /\ lastOp = "load"
  /\ accepted = {}
  /\ drawn = <<>>

\* ImageNode: el.onload -> setImg(el); the effect attaches it with
\* onChange({ ...node, _imageEl: imgEl })
imageLoaded ==
  /\ \E i \in DOMAIN images :
       /\ images[i].id \notin loaded
       /\ loaded' = loaded \cup {images[i].id}
       /\ images' = normalizeImages(
            [images EXCEPT ![i].imageEl =
               [attached |-> TRUE, live |-> TRUE, naturalWidth |-> images[i].src.naturalWidth,
                naturalHeight |-> images[i].src.naturalHeight]])
  /\ lastOp' = "imageLoaded"
  /\ accepted' = {}
  /\ calls' = <<>>
  /\ UNCHANGED <<firstTry, gesture, boardsHalf, slot, run, drawn, BOARD_W, BOARD_H, boards, spacing, resizes, selectedId>>

\* intersectRect's null
NoRect == [x |-> 0, y |-> 0, w |-> 0, h |-> 0]

intersectRect(ax, ay, aw, ah, bx, by, bw, bh) ==
  LET x1 == Max(ax, bx)
      y1 == Max(ay, by)
      x2 == Min(ax + aw, bx + bw)
      y2 == Min(ay + ah, by + bh)
      w == x2 - x1
      h == y2 - y1
  IN IF w <= 0 \/ h <= 0 THEN NoRect ELSE [x |-> x1, y |-> y1, w |-> w, h |-> h]

\* iw * scale and ih * scale for scale = Math.max(n.w / iw, n.h / ih)
renderW(n) ==
  Max(n.w, (n.imageEl.naturalWidth * n.h) \div n.imageEl.naturalHeight)
renderH(n) ==
  Max((n.imageEl.naturalHeight * n.w) \div n.imageEl.naturalWidth, n.h)

\* the body of cropOpsForBoard's loop for an item that has a natural size. The
\* source rectangle sx, sy, sw, sh is kept multiplied by scale (in spread lengths,
\* not image pixels): iw becomes renderW, v / scale becomes v.
cropOp(n, boardIndex) ==
  LET boardX == boardIndex * BOARD_W
      ox == n.x + (n.w - renderW(n)) \div 2
      oy == n.y + (n.h - renderH(n)) \div 2
      inter == intersectRect(ox, oy, renderW(n), renderH(n), boardX, 0, BOARD_W, BOARD_H)
      sx == Max(0, Min(renderW(n), inter.x - ox))
      sy == Max(0, Min(renderH(n), inter.y - oy))
      sw == Max(0, Min(renderW(n) - sx, inter.w))
      sh == Max(0, Min(renderH(n) - sy, inter.h))
  IN IF inter = NoRect THEN <<>>
     ELSE << [id |-> n.id, board |-> boardIndex, img |-> n.imageEl,
              sx |-> sx, sy |-> sy, sw |-> sw, sh |-> sh,
              dx |-> inter.x - boardX, dy |-> inter.y, dw |-> inter.w, dh |-> inter.h] >>

\* a variant of cropOpsForBoard that pushes the ops of later items first
RECURSIVE cropOpsBackToFront(_, _)
cropOpsBackToFront(imgs, boardIndex) ==
  IF imgs = <<>> THEN <<>>
  ELSE LET n == Head(imgs)
           img == n.imageEl
       IN cropOpsBackToFront(Tail(imgs), boardIndex)
          \o (IF ~ img.attached \/ img.naturalWidth = 0 \/ img.naturalHeight = 0
                THEN <<>>
                ELSE cropOp(n, boardIndex))

\* for (const n of images) { ... ops.push({ ... }) }: ops in the order of images
RECURSIVE cropOpsForBoard(_, _)
cropOpsForBoard(imgs, boardIndex) ==
  IF imgs = <<>> THEN <<>>
  ELSE LET n == Head(imgs)
           img == n.imageEl
       IN (IF ~ img.attached \/ img.naturalWidth = 0 \/ img.naturalHeight = 0
             THEN <<>>
             ELSE cropOp(n, boardIndex))
          \o cropOpsForBoard(Tail(imgs), boardIndex)

\* for (let i = 0; i < boards; i++) { ... for (const op of ops) ctx.drawImage(...) }
RECURSIVE drawBoards(_)
drawBoards(i) ==
  IF i >= boards THEN <<>> ELSE cropOpsForBoard(images, i) \o drawBoards(i + 1)

\* a variant that fills the background after the images of the board are drawn
RECURSIVE canvasCallsFillLast(_, _)
canvasCallsFillLast(i, fill) ==
  IF i >= boards THEN <<>>
  ELSE LET ops == cropOpsForBoard(images, i)
       IN [k \in DOMAIN ops |-> [board |-> i, call |-> "drawImage", id |-> ops[k].id]]
          \o (IF fill THEN <<[board |-> i, call |-> "fillRect", id |-> 0]>> ELSE <<>>)
          \o canvasCallsFillLast(i + 1, fill)

\* the canvas calls of the loop over the boards from board i on: ctx.fillRect when
\* the background is filled, then ctx.drawImage for each op of the board
RECURSIVE canvasCalls(_, _)
canvasCalls(i, fill) ==
  IF i >= boards THEN <<>>
  ELSE LET ops == cropOpsForBoard(images, i)
       IN (IF fill THEN <<[board |-> i, call |-> "fillRect", id |-> 0]>> ELSE <<>>)
          \o [k \in DOMAIN ops |-> [board |-> i, call |-> "drawImage", id |-> ops[k].id]]
          \o canvasCalls(i + 1, fill)

\* dropped image files, not decoded yet, ids in list order
GestureLists ==
  UNION { { [k \in 1 .. n |->
              [id |-> k, x |-> f[k].x, y |-> f[k].y, w |-> f[k].w, h |-> f[k].h,
               src |-> [naturalWidth |-> 400, naturalHeight |-> 100], imageEl |-> NoImageEl]]
            : f \in [1 .. n -> { s \in RawShapes : s.y = 40 * PX }] }
          : n \in 0 .. MaxItems }

InitGesture ==
  /\ BOARD_W = 200 * PX
  /\ BOARD_H = 200 * PX
  /\ boards \in {1, 2}
  /\ spacing = 24 * PX
  /\ \E data \in GestureLists : images = normalizeImages(data)
  /\ resizes = 0
  /\ selectedId = null
  /\ run = RunIdle
  /\ boardsHalf = 0
  /\ slot = NoSlot
  /\ firstTry = {}
  /\ gesture = NoGesture
  /\ loaded = {}
  /\ calls = <<>>
  /\ lastOp = "load"
  /\ accepted = {}
  /\ drawn = <<>>

\* ImageNode onDown: the pointer goes down on item i; onMove and onUp, closures
\* of this render with its node, are added to window
onDown ==
  /\ gesture.kind = "none"
  /\ resizes < MaxResizes
  /\ resizes' = resizes + 1
  /\ \E i \in DOMAIN images :
       /\ gesture' = [kind |-> "drag", dir |-> "none", node |-> images[i]]
       /\ selectedId' = images[i].id
  /\ lastOp' = "onDown"
  /\ accepted' = {}
  /\ calls' = <<>>
  /\ UNCHANGED <<loaded, firstTry, boardsHalf, slot, run, drawn, images, BOARD_W, BOARD_H,
                 boards, spacing>>

\* ImageNode startResize(dir, e): the pointer goes down on a corner handle
onHandleDown ==
  /\ gesture.kind = "none"
  /\ resizes < MaxResizes
  /\ resizes' = resizes + 1
  /\ \E i \in DOMAIN images, dir \in {"nw", "ne", "sw", "se"} :
       gesture' = [kind |-> "resize", dir |-> dir, node |-> images[i]]
  /\ lastOp' = "onHandleDown"
  /\ accepted' = {}
  /\ calls' = <<>>
  /\ UNCHANGED <<loaded, firstTry, boardsHalf, slot, run, drawn, images, BOARD_W, BOARD_H,
                 boards, spacing, selectedId>>

\* the drag's onMove for a pointer displacement (dx, dy): { ...node, x, y }
Dragged(node, dx, dy) ==
  [node EXCEPT !.x = clamp(node.x + dx, 0, SPREAD_W - node.w),
               !.y = clamp(node.y + dy, 0, BOARD_H - node.h)]

\* a pointermove while the pointer is down: the handler added at pointer-down
\* runs with the node of that render and passes its copy to onChange,
\* setImages((prev) => prev.map((x) => (x.id === n.id ? next : x)))
onMove ==
  /\ gesture.kind # "none"
  /\ \E d \in PointerMoves :
       LET next == IF gesture.kind = "drag"
                     THEN Dragged(gesture.node, d[1], d[2])
                     ELSE Resized(gesture.node, gesture.dir, d[1], d[2])
       IN images' = normalizeImages(
                      [k \in DOMAIN images |->
                         IF images[k].id = gesture.node.id THEN next ELSE images[k]])
  /\ lastOp' = "onMove"
  /\ accepted' = {}
  /\ calls' = <<>>
  /\ UNCHANGED <<loaded, firstTry, gesture, boardsHalf, slot, run, drawn, BOARD_W, BOARD_H,
                 boards, spacing, resizes, selectedId>>

\* onUp: the handlers are removed from window
onUp ==
  /\ gesture.kind # "none"
  /\ gesture' = NoGesture
  /\ lastOp' = "onUp"
  /\ accepted' = {}
  /\ calls' = <<>>
  /\ UNCHANGED <<loaded, firstTry, boardsHalf, slot, run, drawn, images, BOARD_W, BOARD_H,
                 boards, spacing, resizes, selectedId>>

\* exportBoards: refused with an alert while an image is still loading; fill is
\* type === "image/jpeg" || exportBgMode === "color". No overlay shape is drawn
\* (shapes = []).
exportBoards ==
  /\ images # <<>>
  /\ IF \E i \in DOMAIN images : ~ images[i].imageEl.attached
       THEN drawn' = <<>> /\ calls' = <<>> /\ lastOp' = "exportRefused"
       ELSE /\ drawn' = drawBoards(0)
            /\ \E fill \in BOOLEAN : calls' = canvasCalls(0, fill)
            /\ lastOp' = "export"
  /\ accepted' = {}
  /\ UNCHANGED <<loaded, firstTry, gesture, boardsHalf, slot, run, images, BOARD_W, BOARD_H, boards, spacing, resizes, selectedId>>

----------------------------------------------------------------------------
(* part_003: crop ops by board and their export *)

\* part_003 (and part_001) name the board size boardW, boardH
boardW == BOARD_W
boardH == BOARD_H

\* part_003 cropOpsForBoard: the frame is cut by the board; img is n._imageEl,
\* decoded or not
RECURSIVE cropOpsForBoard003(_, _)
cropOpsForBoard003(imgs, boardIndex) ==
  IF imgs = <<>> THEN <<>>
  ELSE LET n == Head(imgs)
           boardX == boardIndex * boardW
           inter == intersectRect(n.x, n.y, n.w, n.h, boardX, 0, boardW, boardH)
           sx == inter.x - n.x
           sy == inter.y - n.y
           sw == inter.w
           sh == inter.h
           dx == inter.x - boardX
           dy == inter.y
       IN (IF inter = NoRect THEN <<>>
           ELSE << [id |-> n.id, board |-> boardIndex, img |-> n.imageEl,
                    sx |-> sx, sy |-> sy, sw |-> sw, sh |-> sh,
                    dx |-> dx, dy |-> dy, dw |-> sw, dh |-> sh,
                    placedW |-> n.w, placedH |-> n.h] >>)
          \o cropOpsForBoard003(Tail(imgs), boardIndex)

\* part_003 exportBoards, the loop over the ops of a board: ops without an image
\* are skipped; the source rectangle passed to drawImage is op.s* times
\* scaleX = naturalWidth / placedW and scaleY = naturalHeight / placedH. As in
\* cropOp it is kept multiplied by the cover scale max(placedW / naturalWidth,
\* placedH / naturalHeight): v * scaleX becomes v * rW / placedW. An image without
\* a natural size gives scaleX = scaleY = 0.
drawOps003(ops) ==
  LET kept == SelectSeq(ops, LAMBDA op : op.img.attached)
      sized(op) == op.img.naturalWidth # 0 /\ op.img.naturalHeight # 0
      rW(op) == Max(op.placedW, (op.img.naturalWidth * op.placedH) \div op.img.naturalHeight)
      rH(op) == Max((op.img.naturalHeight * op.placedW) \div op.img.naturalWidth, op.placedH)
      timesScaleX(v, op) == IF sized(op) THEN (v * rW(op)) \div op.placedW ELSE 0
      timesScaleY(v, op) == IF sized(op) THEN (v * rH(op)) \div op.placedH ELSE 0
  IN [k \in DOMAIN kept |->
        [id |-> kept[k].id, board |-> kept[k].board, img |-> kept[k].img,
         sx |-> timesScaleX(kept[k].sx, kept[k]), sy |-> timesScaleY(kept[k].sy, kept[k]),
         sw |-> timesScaleX(kept[k].sw, kept[k]), sh |-> timesScaleY(kept[k].sh, kept[k]),
         dx |-> kept[k].dx, dy |-> kept[k].dy, dw |-> kept[k].dw, dh |-> kept[k].dh]]

RECURSIVE drawBoards003(_)
drawBoards003(i) ==
  IF i >= boards THEN <<>>
  ELSE drawOps003(cropOpsForBoard003(images, i)) \o drawBoards003(i + 1)

\* part_003 exportBoards
exportBoards003 ==
  /\ images # <<>>
  /\ IF \E i \in DOMAIN images : ~ images[i].imageEl.attached
       THEN drawn' = <<>> /\ lastOp' = "exportRefused003"
       ELSE drawn' = drawBoards003(0) /\ lastOp' = "export003"
  /\ accepted' = {}
  /\ calls' = <<>>
  /\ UNCHANGED <<loaded, firstTry, gesture, boardsHalf, slot, run, images, BOARD_W, BOARD_H, boards, spacing, resizes, selectedId>>

----------------------------------------------------------------------------
(* part_002, second program: the source rectangle of a board's part of a frame *)

\* coverSourceRect(imgW, imgH, nodeW, nodeH, nx, ny, nw, nh), kept multiplied by
\* scale as in cropOp: imgW becomes rw, v / scale becomes v
coverSourceRect(imgW, imgH, nodeW, nodeH, nx, ny, nw, nh) ==
  LET rw == Max(nodeW, (imgW * nodeH) \div imgH)
      rh == Max((imgH * nodeW) \div imgW, nodeH)
      offsetX == (rw - nodeW) \div 2
      offsetY == (rh - nodeH) \div 2
      sx0 == nx - offsetX
      sy0 == ny - offsetY
      x2 == Min(rw, Max(0, sx0 + nw))
      y2 == Min(rh, Max(0, sy0 + nh))
      sx == Max(0, Min(rw, sx0))
      sy == Max(0, Min(rh, sy0))
  IN [sx |-> sx, sy |-> sy, sw |-> Max(0, x2 - sx), sh |-> Max(0, y2 - sy)]

\* the draw call of the export loop for item n on board i, <<>> when it is skipped
drawCover(n, i) ==
  LET boardX == i * boardW
      inter == intersectRect(n.x, n.y, n.w, n.h, boardX, 0, boardW, boardH)
      s == coverSourceRect(n.imageEl.naturalWidth, n.imageEl.naturalHeight, n.w, n.h,
                           inter.x - n.x, inter.y - n.y, inter.w, inter.h)
  IN IF inter = NoRect THEN <<>>
     ELSE IF s.sw <= 0 \/ s.sh <= 0 THEN <<>>
     ELSE << [id |-> n.id, board |-> i, img |-> n.imageEl,
              sx |-> s.sx, sy |-> s.sy, sw |-> s.sw, sh |-> s.sh,
              dx |-> inter.x - boardX, dy |-> inter.y, dw |-> inter.w, dh |-> inter.h] >>

----------------------------------------------------------------------------
(* part_001: scatter and column layout; images are set without a clamp pass *)

\* part_001's inputs clamp Board W and Board H to 100..8000, Spacing to 0..200
Init001 ==
  /\ BOARD_W = 200 * PX
  /\ BOARD_H = 200 * PX
  /\ boards \in {1, 2}
  /\ spacing \in {0, 24 * PX, 200 * PX}
  /\ images = <<>>
  /\ resizes = 0
  /\ selectedId = null
  /\ run = RunIdle
  /\ boardsHalf = 0
  /\ slot = NoSlot
  /\ firstTry = {}
  /\ gesture = NoGesture
  /\ loaded = {}
  /\ calls = <<>>
  /\ lastOp = "load"
  /\ accepted = {}
  /\ drawn = <<>>

\* addFiles: one image file is added
addFiles001 ==
  /\ Len(images) < MaxItems
  /\ \E kw \in RandIdx, kh \in RandIdx :
       LET w == FloorPx((boardW * (32 * RandSteps + 28 * kw)) \div (100 * RandSteps))
           h == FloorPx((w * (65 * RandSteps + 35 * kh)) \div (100 * RandSteps))
       IN images' = Append(images, [id |-> FreshId, x |-> 20 * PX, y |-> 20 * PX,
                                    w |-> w, h |-> h])
  /\ lastOp' = "addFiles001"
  /\ accepted' = {}
  /\ UNCHANGED <<loaded, calls, firstTry, gesture, boardsHalf, slot, run, drawn, BOARD_W, BOARD_H, boards, spacing, resizes, selectedId>>

\* the orders shuffleInPlace can leave a list in
Shuffles(arr) ==
  { [i \in DOMAIN arr |-> arr[f[i]]] :
      f \in {g \in [DOMAIN arr -> DOMAIN arr] : \A i, j \in DOMAIN arr : g[i] = g[j] => i = j} }

\* placed.some((p) => overlapWith(candidate, p, m))
overlapWith(a, b, m) == rectsOverlapWithMargin(a, b, m)

overlapsPlaced(c, placed, m) == \E i \in DOMAIN placed : overlapWith(c, placed[i], m)

\* the candidates one try of tryPlace can draw on board boardIndex for size w, h
tryCandidates(node, boardIndex, w, h) ==
  { [node EXCEPT
       !.x = FloorPx(boardIndex * boardW + (kx * (boardW - w)) \div RandSteps),
       !.y = FloorPx((ky * Max(PX, boardH - h)) \div RandSteps),
       !.w = w, !.h = h]
    : kx \in RandIdx, ky \in RandIdx }

\* src.map(tryPlace): every result of the maxTries = 400 tries of each item. Try t
\* draws on board (nextBoard + t) % boards; a free candidate on a board is the
\* result when every board tried before it has a candidate that overlaps; when
\* every board has one all tries may fail, and the item gets the fallback
\* rectangle on board nextBoard. acc holds the ids a try accepted.
RECURSIVE tryPlaceAll(_, _, _, _, _)
tryPlaceAll(todo, placed, nextBoard, out, acc) ==
  IF todo = <<>> THEN {[out |-> out, acc |-> acc]}
  ELSE
    LET node == Head(todo)
        minW == (boardW * 25) \div 100
        maxW == (boardW * 65) \div 100
        missOn(b, w, h) ==
          \E c \in tryCandidates(node, b, w, h) : overlapsPlaced(c, placed, spacing)
        \* the tries t = 0 .. d - 1 before board (nextBoard + d) % boards is drawn
        missBefore(d, w, h) ==
          \A t \in 0 .. (d - 1) : missOn((nextBoard + t) % boards, w, h)
        byTry(w, h) ==
          UNION { { tryPlaceAll(Tail(todo), Append(placed, c),
                                (((nextBoard + d) % boards) + 1) % boards, Append(out, c),
                                acc \cup {c.id})
                    : c \in { k \in tryCandidates(node, (nextBoard + d) % boards, w, h) :
                               ~ overlapsPlaced(k, placed, spacing) } }
                  : d \in { e \in 0 .. (boards - 1) : missBefore(e, w, h) } }
        \* fallback clamp to board grid
        c0 == [node EXCEPT
                 !.x = nextBoard * boardW + 2 * PX,
                 !.y = 2 * PX,
                 !.w = Min(maxW, boardW - spacing * 2),
                 !.h = Min(FloorPx((maxW * 75) \div 100), boardH - spacing * 2)]
        byFallback(w, h) ==
          IF missBefore(boards, w, h)
            THEN tryPlaceAll(Tail(todo), Append(placed, c0), (nextBoard + 1) % boards,
                             Append(out, c0), acc)
            ELSE {}
        sizes ==
          { <<FloorPx(minW + (kw * (maxW - minW)) \div RandSteps), kh>>
            : kw \in RandIdx, kh \in RandIdx }
    IN UNION { LET w == z[1]
                   h == FloorPx((w * (60 * RandSteps + 40 * z[2])) \div (100 * RandSteps))
               IN (UNION byTry(w, h)) \cup byFallback(w, h)
               : z \in sizes }

\* randomise({ spreadVertical: true, acrossBoards: true })
randomise001 ==
  /\ images # <<>>
  /\ \E src \in Shuffles(images) :
       \E r \in tryPlaceAll(src, <<>>, 0, <<>>, {}) :
         /\ images' = r.out
         /\ accepted' = r.acc
  /\ lastOp' = "randomise001"
  /\ UNCHANGED <<loaded, calls, firstTry, gesture, boardsHalf, slot, run, drawn, BOARD_W, BOARD_H, boards, spacing, resizes, selectedId>>

\* the loops of pack over y, the boards bx and x for one item: the first free
\* origin in the order y, then board, then x; found = FALSE when none is free
scan001(n, placed) ==
  LET At(x, y) == [n EXCEPT !.x = x, !.y = y]
      free == {p \in (UNION {GridX(bx, n.w) : bx \in 0 .. (boards - 1)}) \X GridY(n.h) :
                 ~ overlapsPlaced(At(p[1], p[2]), placed, spacing)}
  IN IF free = {} THEN [found |-> FALSE, node |-> n]
     ELSE LET y0 == SetMin({p[2] : p \in free})
          IN [found |-> TRUE, node |-> At(SetMin({p[1] : p \in {q \in free : q[2] = y0}}), y0)]

\* for (const n of src) { ... } of pack; an item that cannot be packed is pushed
\* as it is
RECURSIVE pack001All(_, _, _)
pack001All(todo, placed, acc) ==
  IF todo = <<>> THEN [out |-> placed, acc |-> acc]
  ELSE LET s == scan001(Head(todo), placed)
       IN pack001All(Tail(todo), Append(placed, s.node),
                     IF s.found THEN acc \cup {s.node.id} ELSE acc)

\* pack: src is the list sorted by area, descending; setImages(placed)
pack001 ==
  /\ images # <<>>
  /\ LET r == pack001All(sortByArea(images), <<>>, {})
     IN /\ images' = r.out
        /\ accepted' = r.acc
  /\ lastOp' = "pack001"
  /\ UNCHANGED <<loaded, calls, firstTry, gesture, boardsHalf, slot, run, drawn, BOARD_W, BOARD_H, boards, spacing, resizes, selectedId>>

\* pointer displacements (dx, dy) of one drag: across the right edge of the
\* board; up and to the left, off the spread
Drags001 == { <<130 * PX, 0>>, <<-(40 * PX), -(40 * PX)>> }

\* Item drag, move: onChange({ ...node, x: oX + dx, y: oY + dy }), stored as it is
move001 ==
  /\ resizes < MaxResizes
  /\ resizes' = resizes + 1
  /\ \E i \in DOMAIN images, d \in Drags001 :
       images' = [images EXCEPT ![i] = [@ EXCEPT !.x = @ + d[1], !.y = @ + d[2]]]
  /\ lastOp' = "move001"
  /\ accepted' = {}
  /\ UNCHANGED <<loaded, calls, firstTry, gesture, boardsHalf, slot, run, drawn, BOARD_W, BOARD_H, boards,
                 spacing, selectedId>>

\* const clamp = (v, min, max) => Math.min(Math.max(v, min), max);
clamp001(v, min, max) == Min(Max(v, min), max)

\* fix bounds clamps everything inside boards
fixBounds001 ==
  /\ images' =
       [i \in DOMAIN images |->
          LET n == images[i]
              w == clamp001(n.w, 4 * PX, boardW)
              h == clamp001(n.h, 4 * PX, boardH)
              x0 == clamp001(n.x, 0, SPREAD_W - w)
              \* keep on same board slice if already inside a board
              boardIndex == x0 \div boardW
              bx == boardIndex * boardW
              x == clamp001(x0, bx, bx + boardW - w)
              y == clamp001(n.y, 0, boardH - h)
          IN [n EXCEPT !.x = x, !.y = y, !.w = w, !.h = h]]
  /\ lastOp' = "fixBounds001"
  /\ accepted' = {}
  /\ UNCHANGED <<loaded, calls, firstTry, gesture, boardsHalf, slot, run, drawn, BOARD_W, BOARD_H, boards,
                 spacing, resizes, selectedId>>

\* editorial(gap), the loops over boards b, columns c and the items from src[idx]
\* on, with y the running height of the column
RECURSIVE editorialFill(_, _, _, _, _, _, _, _)
editorialFill(src, gap, colsPerBoard, b, c, y, idx, placed) ==
  LET colW == FloorPx((boardW - gap * (colsPerBoard + 1)) \div colsPerBoard)
      colX == b * boardW + gap + c * (colW + gap)
      node(k) ==
        [src[idx] EXCEPT
           !.x = colX, !.y = y, !.w = colW,
           !.h = Min(FloorPx((colW * (75 * RandSteps + 60 * k)) \div (100 * RandSteps)),
                     boardH - y - gap)]
      free == {k \in RandIdx : ~ overlapsPlaced(node(k), placed, gap \div 2)}
  IN IF b >= boards THEN {placed}
     ELSE IF c >= colsPerBoard
       THEN editorialFill(src, gap, colsPerBoard, b + 1, 0, gap, idx, placed)
     ELSE IF ~ (idx <= Len(src) /\ y < boardH - gap)
       THEN editorialFill(src, gap, colsPerBoard, b, c + 1, gap, idx, placed)
     ELSE
       UNION { editorialFill(src, gap, colsPerBoard, b, c, y + node(k).h + gap, idx + 1,
                             Append(placed, node(k))) : k \in free }
       \cup (IF free = RandIdx THEN {}
             \* try push down a bit, retry same item in next slot
             ELSE editorialFill(src, gap, colsPerBoard, b, c, y + Max(8 * PX, gap), idx,
                                placed))

\* 2 + Math.floor(Math.random() * 3)
ColsPerBoard == {2 + (3 * k) \div RandSteps : k \in RandIdx}

editorial(gap) ==
  /\ \E src \in Shuffles(images), colsPerBoard \in ColsPerBoard :
       images' \in editorialFill(src, gap, colsPerBoard, 0, 0, gap, 1, <<>>)
  /\ accepted' = {}
  /\ UNCHANGED <<loaded, calls, firstTry, gesture, boardsHalf, slot, run, drawn, BOARD_W, BOARD_H, boards, spacing, resizes, selectedId>>

\* editorialSeamless = () => editorial(0)
editorialSeamless001 ==
  /\ images # <<>>
  /\ editorial(0)
  /\ lastOp' = "editorialSeamless001"

\* <button onClick={editorial}>: gap is the click event, not a number. gap * n is
\* NaN, so colW is NaN and y < boardH - gap is false in every column: the while
\* loop never runs and setImages(placed) sets the empty list.
editorial001 ==
  /\ images # <<>>
  /\ images' = <<>>
  /\ lastOp' = "editorial001"
  /\ accepted' = {}
  /\ UNCHANGED <<loaded, calls, firstTry, gesture, boardsHalf, slot, run, drawn, BOARD_W, BOARD_H, boards, spacing, resizes, selectedId>>

----------------------------------------------------------------------------
(* Z-INDEX HELPERS (App.jsx) *)

MaxLayers == 3

\* three dropped images at most, some resized, ids in list order
LayerLists ==
  UNION { { [k \in 1 .. n |-> [id |-> k, x |-> f[k].x, y |-> f[k].y, w |-> f[k].w, h |-> f[k].h]]
            : f \in [1 .. n -> { s \in RawShapes : s.y = 40 * PX }] }
          : n \in 0 .. MaxLayers }

InitLayers ==
  /\ BOARD_W = 200 * PX
  /\ BOARD_H = 200 * PX
  /\ boards = 2
  /\ spacing = 24 * PX
  /\ \E data \in LayerLists : images = normalizeImages(data)
  /\ resizes = 0
  /\ selectedId = null
  /\ run = RunIdle
  /\ boardsHalf = 0
  /\ slot = NoSlot
  /\ firstTry = {}
  /\ gesture = NoGesture
  /\ loaded = {}
  /\ calls = <<>>
  /\ lastOp = "load"
  /\ accepted = {}
  /\ drawn = <<>>

\* the same lists on one board or two, of 200 x 200 or 440 x 400 pixels, with and
\* without spacing
InitColumns ==
  /\ \E d \in {<<200 * PX, 200 * PX>>, <<440 * PX, 400 * PX>>} :
       BOARD_W = d[1] /\ BOARD_H = d[2]
  /\ boards \in {1, 2}
  /\ spacing \in {0, 24 * PX}
  /\ \E data \in LayerLists : images = normalizeImages(data)
  /\ resizes = 0
  /\ selectedId = null
  /\ run = RunIdle
  /\ boardsHalf = 0
  /\ slot = NoSlot
  /\ firstTry = {}
  /\ gesture = NoGesture
  /\ loaded = {}
  /\ calls = <<>>
  /\ lastOp = "load"
  /\ accepted = {}
  /\ drawn = <<>>

\* ImageNode onSelect: setSelectedId(n.id)
onSelect ==
  /\ \E i \in DOMAIN images : selectedId' = images[i].id
  /\ lastOp' = "select"
  /\ accepted' = {}
  /\ UNCHANGED <<loaded, calls, firstTry, gesture, boardsHalf, slot, run, images, drawn, BOARD_W, BOARD_H, boards, spacing, resizes>>

\* click on the empty spread: setSelectedId(null)
onSpreadClick ==
  /\ selectedId' = null
  /\ lastOp' = "deselect"
  /\ accepted' = {}
  /\ UNCHANGED <<loaded, calls, firstTry, gesture, boardsHalf, slot, run, images, drawn, BOARD_W, BOARD_H, boards, spacing, resizes>>

\* prev.findIndex((x) => x.id === id), counted from 1; 0 stands for -1
findIndex(prev, id) ==
  IF \E i \in DOMAIN prev : prev[i].id = id
    THEN SetMin({i \in DOMAIN prev : prev[i].id = id})
    ELSE 0

\* const [it] = a.splice(idx, 1)
splice(a, idx) == [i \in 1 .. (Len(a) - 1) |-> IF i < idx THEN a[i] ELSE a[i + 1]]

\* the updater of sendBackward
backward(prev, id) ==
  LET idx == findIndex(prev, id)
  IN IF idx > 1 THEN [prev EXCEPT ![idx - 1] = prev[idx], ![idx] = prev[idx - 1]] ELSE prev

\* the updater of bringForward
forward(prev, id) ==
  LET idx == findIndex(prev, id)
  IN IF idx >= 1 /\ idx < Len(prev)
       THEN [prev EXCEPT ![idx + 1] = prev[idx], ![idx] = prev[idx + 1]]
       ELSE prev

\* a variant of the updater of bringToFront that exchanges the item with the last one
toFrontBySwap(prev, id) ==
  LET idx == findIndex(prev, id)
  IN IF idx >= 1
       THEN [prev EXCEPT ![Len(prev)] = prev[idx], ![idx] = prev[Len(prev)]]
       ELSE prev

\* the updater of bringToFront
toFront(prev, id) ==
  LET idx == findIndex(prev, id)
  IN IF idx >= 1 THEN Append(splice(prev, idx), prev[idx]) ELSE prev

\* the updater of sendToBack
toBack(prev, id) ==
  LET idx == findIndex(prev, id)
  IN IF idx >= 1 THEN <<prev[idx]>> \o splice(prev, idx) ELSE prev

\* const id = selectedId; if (!id) return; setImages((prev) => ...)
sendBackward ==
  /\ images' = IF selectedId = null THEN images
               ELSE normalizeImages(backward(images, selectedId))
  /\ lastOp' = "sendBackward"
  /\ accepted' = {}
  /\ UNCHANGED <<loaded, calls, firstTry, gesture, boardsHalf, slot, run, drawn, BOARD_W, BOARD_H, boards, spacing, resizes, selectedId>>

bringForward ==
  /\ images' = IF selectedId = null THEN images
               ELSE normalizeImages(forward(images, selectedId))
  /\ lastOp' = "bringForward"
  /\ accepted' = {}
  /\ UNCHANGED <<loaded, calls, firstTry, gesture, boardsHalf, slot, run, drawn, BOARD_W, BOARD_H, boards, spacing, resizes, selectedId>>

bringToFront ==
  /\ images' = IF selectedId = null THEN images
               ELSE normalizeImages(toFront(images, selectedId))
  /\ lastOp' = "bringToFront"
  /\ accepted' = {}
  /\ UNCHANGED <<loaded, calls, firstTry, gesture, boardsHalf, slot, run, drawn, BOARD_W, BOARD_H, boards, spacing, resizes, selectedId>>

sendToBack ==
  /\ images' = IF selectedId = null THEN images
               ELSE normalizeImages(toBack(images, selectedId))
  /\ lastOp' = "sendToBack"
  /\ accepted' = {}
  /\ UNCHANGED <<loaded, calls, firstTry, gesture, boardsHalf, slot, run, drawn, BOARD_W, BOARD_H, boards, spacing, resizes, selectedId>>

\* Delete / Backspace with an item selected
deleteSelected ==
  /\ selectedId # null
  /\ images' = normalizeImages(SelectSeq(images, LAMBDA n : n.id # selectedId))
  /\ selectedId' = null
  /\ lastOp' = "delete"
  /\ accepted' = {}
  /\ UNCHANGED <<loaded, calls, firstTry, gesture, boardsHalf, slot, run, drawn, BOARD_W, BOARD_H, boards, spacing, resizes>>

----------------------------------------------------------------------------
(* THE LOOPS OF THE PLACEMENT STRATEGIES, ONE ITERATION PER STEP (App.jsx) *)

\* the retries of attemptPlace the model makes (maxTries, 400 in the code)
MaxTries == 3

\* the lists a strategy is entered on: dropped images and images resized wider
\* than a board, as loaded
RunLists ==
  UNION { { [k \in 1 .. n |-> [id |-> k, x |-> f[k].x, y |-> f[k].y, w |-> f[k].w, h |-> f[k].h]]
            : f \in [1 .. n -> { s \in RawShapes : s.y = 40 * PX }] }
          : n \in 0 .. MaxItems }

InitRun ==
  /\ BOARD_W = 200 * PX
  /\ BOARD_H = 200 * PX
  /\ boards \in {1, 2}
  /\ spacing \in {0, 24 * PX, 300 * PX}
  /\ \E data \in RunLists : images = normalizeImages(data)
  /\ resizes = 0
  /\ selectedId = null
  /\ run = RunIdle
  /\ boardsHalf = 0
  /\ slot = NoSlot
  /\ firstTry = {}
  /\ gesture = NoGesture
  /\ loaded = {}
  /\ calls = <<>>
  /\ lastOp = "load"
  /\ accepted = {}
  /\ drawn = <<>>

\* randomiseLayout or packLayout (on the sorted list) is entered: its loops start
\* on the first item
start(op) ==
  /\ run.op = "idle"
  /\ lastOp = "load"
  /\ images # <<>>
  /\ run' = [RunIdle EXCEPT
               !.op = op,
               !.todo = IF op = "pack" THEN sortByArea(images) ELSE images,
               !.phase = IF op = "randomise" THEN "tries" ELSE "scan"]
  /\ UNCHANGED <<loaded, calls, firstTry, gesture, boardsHalf, slot, images, lastOp, accepted, drawn, BOARD_W, BOARD_H, boards, spacing,
                 resizes, selectedId>>

\* prev.map(...) of packBottom, editorialSpaced (gutter = spacing) or
\* editorialSeamless (gutter = 0); ks are the Math.random() of the heights
mapAll(op, todo, ks) ==
  LET gutter == IF op = "editorialSpaced" THEN spacing ELSE 0
      colW == (BOARD_W - (columnsPerBoard - 1) * gutter) \div columnsPerBoard
  IN IF op = "packBottom"
       THEN packBottomAll(todo, zeroTrack(packBottomCols), <<>>)
       ELSE editorialAll(todo, ks, gutter, colW, zeroTrack(columnsPerBoard), <<>>)

\* packBottom, editorialSpaced or editorialSeamless is entered and maps over
\* prev: for loops over the boards, the columns and the items
startMap(op) ==
  /\ run.op = "idle"
  /\ lastOp = "load"
  /\ images # <<>>
  /\ \E ks \in [1 .. Len(images) -> RandIdx] :
       run' = [RunIdle EXCEPT !.op = op, !.phase = "map",
                              !.out = mapAll(op, images, ks)]
  /\ UNCHANGED <<loaded, calls, firstTry, gesture, boardsHalf, slot, images, lastOp, accepted, drawn, BOARD_W, BOARD_H, boards, spacing,
                 resizes, selectedId>>

\* the loops go on to the next item of prev.map(...) / sorted.map(scan)
nextItem(c, pushed, ok) ==
  [run EXCEPT !.todo = Tail(@),
              !.placed = IF pushed THEN Append(@, c) ELSE @,
              !.out = Append(@, c),
              !.acc = IF ok THEN @ \cup {c.id} ELSE @,
              !.phase = IF run.op = "randomise" THEN "tries" ELSE "scan",
              !.t = 0, !.b = 0, !.y = 0, !.x = 0]

\* one pass of for (let t = 0; t < maxTries; t++) { ... } of attemptPlace
tryStep ==
  /\ run.op = "randomise" /\ run.phase = "tries" /\ run.todo # <<>>
  /\ IF run.t < MaxTries
       THEN \E c \in Candidates(Head(run.todo)) :
              run' = IF IsFree(c, run.placed)
                       THEN nextItem(c, TRUE, TRUE)
                       ELSE [run EXCEPT !.t = @ + 1]
       ELSE run' = [run EXCEPT !.phase = "scan", !.b = 0, !.y = 0, !.x = 0]
  /\ UNCHANGED <<loaded, calls, firstTry, gesture, boardsHalf, slot, images, lastOp, accepted, drawn, BOARD_W, BOARD_H, boards, spacing,
                 resizes, selectedId>>

\* one test of a loop condition of the grid scan, with the body or the exit it
\* leads to: for b / for y / for x, each y and x advancing by Math.max(8, spacing)
scanStep ==
  /\ run.phase = "scan" /\ run.todo # <<>>
  /\ LET node == Head(run.todo)
         boardStart == run.b * BOARD_W
         c == [node EXCEPT !.x = run.x, !.y = run.y]
     IN run' =
          IF run.b >= boards
            THEN IF run.op = "pack"
                   THEN nextItem(node, TRUE, FALSE)
                   ELSE nextItem(IF run.placed # <<>> THEN Last(run.placed) ELSE node,
                                 FALSE, FALSE)
          ELSE IF run.y > BOARD_H - node.h
            THEN [run EXCEPT !.b = @ + 1, !.y = 0, !.x = (run.b + 1) * BOARD_W]
          ELSE IF run.x > boardStart + BOARD_W - node.w
            THEN [run EXCEPT !.y = @ + step, !.x = boardStart]
          ELSE IF IsFree(c, run.placed)
            THEN nextItem(c, TRUE, TRUE)
          ELSE [run EXCEPT !.x = @ + step]
  /\ UNCHANGED <<loaded, calls, firstTry, gesture, boardsHalf, slot, images, lastOp, accepted, drawn, BOARD_W, BOARD_H, boards, spacing,
                 resizes, selectedId>>

\* the handler returns: setImages normalizes the mapped list
finishRun ==
  /\ run.op # "idle" /\ run.todo = <<>>
  /\ images' = normalizeImages(run.out)
  /\ lastOp' = run.op
  /\ accepted' = run.acc
  /\ run' = RunIdle
  /\ UNCHANGED <<loaded, calls, firstTry, gesture, boardsHalf, slot, drawn, BOARD_W, BOARD_H, boards, spacing, resizes, selectedId>>

----------------------------------------------------------------------------
(* CONFIGURATION: CONTROLS, SIZE PRESETS, PRESET FILES AND SLOTS (App.jsx) *)

MAX_BOARDS == 20

DEFAULT_BOARDS == 6

\* parseInt(e.target.value || "1", 10) of what can be typed in a number input
TypedNumbers == {-3, 2, 25, 9000}

\* the options of the size preset select, "WxH"
SizeOptions == { <<1080, 1320>>, <<1320, 1080>>, <<2048, 1536>>, <<2480, 3508>> }

\* data.boards of a preset file, in halves (JSON numbers need not be whole):
\* absent, 0.5, 2, 2.5, 30
FileBoards == {NoValue, 1, 4, 5, 60}

\* data.BOARD_W and data.BOARD_H of a preset file, in pixels
FileLengths == {NoValue, 0, 7000}

\* the state after construction: the default configuration, no images
InitConfig ==
  /\ BOARD_W = 1080 * PX
  /\ BOARD_H = 1320 * PX
  /\ boards = DEFAULT_BOARDS
  /\ spacing = 24 * PX
  /\ images = <<>>
  /\ resizes = 0
  /\ selectedId = null
  /\ run = RunIdle
  /\ boardsHalf = 0
  /\ slot = NoSlot
  /\ firstTry = {}
  /\ gesture = NoGesture
  /\ loaded = {}
  /\ calls = <<>>
  /\ lastOp = "init"
  /\ accepted = {}
  /\ drawn = <<>>

\* Boards input: setBoards(clamp(parseInt(...), 1, MAX_BOARDS))
boardsInput ==
  /\ \E v \in TypedNumbers : boards' = clamp(v, 1, MAX_BOARDS)
  /\ boardsHalf' = 0
  /\ lastOp' = "boardsInput"
  /\ accepted' = {}
  /\ UNCHANGED <<loaded, calls, firstTry, gesture, BOARD_W, BOARD_H, spacing, images, resizes, drawn, selectedId, run, slot>>

\* Preset select: const [w, h] = v.split("x").map(parseInt); setBoardW(w); setBoardH(h)
sizePresetSelect ==
  /\ \E o \in SizeOptions : BOARD_W' = o[1] * PX /\ BOARD_H' = o[2] * PX
  /\ lastOp' = "sizePreset"
  /\ accepted' = {}
  /\ UNCHANGED <<loaded, calls, firstTry, gesture, boards, boardsHalf, spacing, images, resizes, drawn, selectedId, run, slot>>

\* W input: setBoardW(clamp(parseInt(...), 200, 8000))
widthInput ==
  /\ \E v \in TypedNumbers : BOARD_W' = clamp(v * PX, 200 * PX, 8000 * PX)
  /\ lastOp' = "widthInput"
  /\ accepted' = {}
  /\ UNCHANGED <<loaded, calls, firstTry, gesture, BOARD_H, boards, boardsHalf, spacing, images, resizes, drawn, selectedId,
                 run, slot>>

\* H input: setBoardH(clamp(parseInt(...), 200, 8000))
heightInput ==
  /\ \E v \in TypedNumbers : BOARD_H' = clamp(v * PX, 200 * PX, 8000 * PX)
  /\ lastOp' = "heightInput"
  /\ accepted' = {}
  /\ UNCHANGED <<loaded, calls, firstTry, gesture, BOARD_W, boards, boardsHalf, spacing, images, resizes, drawn, selectedId,
                 run, slot>>

\* presetLoad of a file without images: each of BOARD_W, BOARD_H, boards is set,
\* clamped, when the file carries a number for it
presetLoad ==
  /\ \E w \in FileLengths, h \in FileLengths, b \in FileBoards :
       /\ BOARD_W' = IF w = NoValue THEN BOARD_W ELSE clamp(w * PX, 200 * PX, 6000 * PX)
       /\ BOARD_H' = IF h = NoValue THEN BOARD_H ELSE clamp(h * PX, 200 * PX, 6000 * PX)
       /\ boards' = IF b = NoValue THEN boards ELSE clamp(b, 2 * 1, 2 * MAX_BOARDS) \div 2
       /\ boardsHalf' = IF b = NoValue THEN boardsHalf
                        ELSE clamp(b, 2 * 1, 2 * MAX_BOARDS) % 2
  /\ lastOp' = "presetLoad"
  /\ accepted' = {}
  /\ UNCHANGED <<loaded, calls, firstTry, gesture, spacing, images, resizes, drawn, selectedId, run, slot>>

\* savePresetSlot: list[name] = { boards, BOARD_W, BOARD_H, ... }
savePresetSlot ==
  /\ slot' = [saved |-> TRUE, boards |-> boards, boardsHalf |-> boardsHalf,
              BOARD_W |-> BOARD_W, BOARD_H |-> BOARD_H]
  /\ lastOp' = "savePresetSlot"
  /\ accepted' = {}
  /\ UNCHANGED <<loaded, calls, firstTry, gesture, BOARD_W, BOARD_H, boards, boardsHalf, spacing, images, resizes, drawn,
                 selectedId, run>>

\* loadPresetSlot: setBoardW(p.BOARD_W); setBoardH(p.BOARD_H); setBoards(p.boards);
\* setImages(p.images || [])
loadPresetSlot ==
  /\ slot.saved
  /\ BOARD_W' = slot.BOARD_W
  /\ BOARD_H' = slot.BOARD_H
  /\ boards' = slot.boards
  /\ boardsHalf' = slot.boardsHalf
  /\ images' = normalizeImages(<<>>)
  /\ lastOp' = "loadPresetSlot"
  /\ accepted' = {}
  /\ UNCHANGED <<loaded, calls, firstTry, gesture, spacing, resizes, drawn, selectedId, run, slot>>

----------------------------------------------------------------------------
(* part_002, second program: AUTO-GROW PLACEMENT CORE, AUTO SPREAD, PACK *)

MaxSpreadItems == 4

\* the state after construction, with a board count chosen in the select
Init002 ==
  /\ BOARD_W = 200 * PX
  /\ BOARD_H = 200 * PX
  /\ boards \in {1, 2}
  /\ spacing \in {0, 24 * PX}
  /\ images = <<>>
  /\ resizes = 0
  /\ selectedId = null
  /\ run = RunIdle
  /\ boardsHalf = 0
  /\ slot = NoSlot
  /\ firstTry = {}
  /\ gesture = NoGesture
  /\ loaded = {}
  /\ calls = <<>>
  /\ lastOp = "init"
  /\ accepted = {}
  /\ drawn = <<>>

\* onDropFiles: one image file is added
onDropFiles002 ==
  /\ Len(images) < MaxSpreadItems
  /\ \E kw \in RandIdx, kh \in RandIdx :
       LET w == FloorPx((boardW * (25 * RandSteps + 35 * kw)) \div (100 * RandSteps))
           h == FloorPx((w * (60 * RandSteps + 35 * kh)) \div (100 * RandSteps))
       IN images' = Append(images, [id |-> Len(images) + 1, x |-> 20 * PX, y |-> 20 * PX,
                                    w |-> w, h |-> h])
  /\ lastOp' = "onDropFiles002"
  /\ accepted' = {}
  /\ UNCHANGED <<loaded, calls, firstTry, gesture, boardsHalf, slot, run, drawn, BOARD_W, BOARD_H, boards, spacing, resizes,
                 selectedId>>

\* tryPlaceAll of flowPlaceAutoGrow from item src[1] on, with b boards, the cursor
\* at (x, y) and the row height rowH: ok = FALSE where the code returns false
RECURSIVE flowTryPlaceAll(_, _, _, _, _, _, _)
flowTryPlaceAll(src, b, m, x, y, rowH, res) ==
  IF src = <<>> THEN [ok |-> TRUE, res |-> res]
  ELSE
    LET n == Head(src)
        SPW == b * boardW
        w0 == Min(n.w, FloorPx((boardW * 9) \div 10))
        h0 == Min(n.h, FloorPx((boardH * 9) \div 10))
        w == IF w0 <= 0 \/ h0 <= 0 THEN 100 * PX ELSE w0
        h == IF w0 <= 0 \/ h0 <= 0 THEN 80 * PX ELSE h0
        \* new row
        row == x + w > SPW
        x1 == IF row THEN (x \div boardW) * boardW ELSE x
        y1 == IF row THEN y + rowH + m ELSE y
        rowH1 == IF row THEN 0 ELSE rowH
        \* push to next board if crossing boundary
        rightEdge == ((x1 + PX + boardW - 1) \div boardW) * boardW
        x2 == IF x1 + w > rightEdge THEN rightEdge + m ELSE x1
        \* new column (next board)
        col == y1 + h > boardH
        x3 == IF col THEN ((x2 \div boardW) + 1) * boardW ELSE x2
        y3 == IF col THEN 0 ELSE y1
        rowH3 == IF col THEN 0 ELSE rowH1
    IN IF x2 + w > SPW \/ (col /\ x3 + w > SPW)
         THEN [ok |-> FALSE, res |-> res]
         ELSE flowTryPlaceAll(Tail(src), b, m, x3 + w + m, y3, Max(rowH3, h),
                              Append(res, [n EXCEPT !.x = x3, !.y = y3, !.w = w, !.h = h]))

\* let ok = tryPlaceAll(); while (!ok && b < MAX_BOARDS) { b += 1; ok = tryPlaceAll(); }
RECURSIVE flowGrow(_, _, _)
flowGrow(sourceItems, b, m) ==
  LET r == flowTryPlaceAll(sourceItems, b, m, 0, 0, 0, <<>>)
  IN IF r.ok THEN [placed |-> r.res, usedBoards |-> b]
     ELSE IF b < MAX_BOARDS THEN flowGrow(sourceItems, b + 1, m)
     ELSE [placed |-> sourceItems, usedBoards |-> b]

flowPlaceAutoGrow(sourceItems, tight) ==
  flowGrow(sourceItems, Max(1, boards), IF tight THEN 0 ELSE spacing)

\* packTop: the items sorted by area, flowed with the spacing
packTop ==
  /\ images # <<>>
  /\ LET r == flowPlaceAutoGrow(sortByArea(images), FALSE)
     IN /\ boards' = r.usedBoards
        /\ images' = r.placed
  /\ lastOp' = "packTop"
  /\ accepted' = {}
  /\ UNCHANGED <<loaded, calls, firstTry, gesture, boardsHalf, slot, run, drawn, BOARD_W, BOARD_H, spacing, resizes, selectedId>>

\* firstPageThreeUp: a hero over the full board width and up to two items below
firstPageThreeUp(arr, tight) ==
  LET m == IF tight THEN 0 ELSE spacing
      heroH == FloorPx((boardH * 56) \div 100 + PX \div 2)
      bottomH == boardH - heroH - m
      leftW == IF Len(arr) >= 3 THEN FloorPx((boardW - m) \div 2) ELSE boardW
      x2 == leftW + m
  IN [i \in DOMAIN arr |->
        IF i = 1 THEN [arr[i] EXCEPT !.x = 0, !.y = 0, !.w = boardW, !.h = heroH]
        ELSE IF i = 2
          THEN [arr[i] EXCEPT !.x = 0, !.y = heroH + m, !.w = leftW, !.h = bottomH]
        ELSE [arr[i] EXCEPT !.x = x2, !.y = heroH + m, !.w = boardW - x2, !.h = bottomH]]

\* autoSpread (editorialSpaced: tight = false, editorialTight: tight = true): the
\* first three items on page 0, the rest flowed and shifted by one board
autoSpread(tight) ==
  /\ LET m == IF tight THEN 0 ELSE spacing
         n3 == Min(3, Len(images))
         head == firstPageThreeUp(SubSeq(images, 1, n3), tight)
         tail == SubSeq(images, n3 + 1, Len(images))
         r == flowPlaceAutoGrow(tail, tight)
         shifted == [i \in DOMAIN r.placed |->
                       [r.placed[i] EXCEPT !.x = @ + boardW + m]]
     IN /\ boards' = r.usedBoards
        /\ images' = head \o shifted
  /\ lastOp' = "autoSpread"
  /\ accepted' = {}
  /\ UNCHANGED <<loaded, calls, firstTry, gesture, boardsHalf, slot, run, drawn, BOARD_W, BOARD_H, spacing, resizes, selectedId>>

----------------------------------------------------------------------------
(* part_003: SAFE PLACER, LAYOUTS, FIX BOUNDS, RESIZE *)

\* the number of board widths to the left of the spread up to which the Fix
\* bounds button is followed
MaxDrift == 2

\* const clamp = (v, min, max) => Math.min(Math.max(v, min), max);
clamp003(v, min, max) == Min(Max(v, min), max)

\* the Board W and Board H inputs clamp to 100..20000, Spacing to 0..400
Init003 ==
  /\ BOARD_W = 200 * PX
  /\ BOARD_H = 200 * PX
  /\ boards \in {1, 2}
  /\ spacing \in {0, 24 * PX, 200 * PX}
  /\ images = <<>>
  /\ resizes = 0
  /\ selectedId = null
  /\ run = RunIdle
  /\ boardsHalf = 0
  /\ slot = NoSlot
  /\ firstTry = {}
  /\ gesture = NoGesture
  /\ loaded = {}
  /\ calls = <<>>
  /\ lastOp = "load"
  /\ accepted = {}
  /\ drawn = <<>>

\* onAddImages: one image file is added
onAddImages003 ==
  /\ Len(images) < MaxItems
  /\ \E kw \in RandIdx, kh \in RandIdx :
       LET w == FloorPx((boardW * (25 * RandSteps + 35 * kw)) \div (100 * RandSteps))
           h == FloorPx((w * (65 * RandSteps + 40 * kh)) \div (100 * RandSteps))
       IN images' = Append(images, [id |-> FreshId, x |-> spacing, y |-> spacing,
                                    w |-> w, h |-> h])
  /\ lastOp' = "onAddImages003"
  /\ accepted' = {}
  /\ firstTry' = {}
  /\ UNCHANGED <<loaded, calls, gesture, boardsHalf, slot, run, drawn, BOARD_W, BOARD_H, boards, spacing,
                 resizes, selectedId>>

clampToBoards(n) ==
  LET bx == n.x \div boardW \* which board index
      left == bx * boardW + spacing
      right == (bx + 1) * boardW - spacing - n.w
  IN [n EXCEPT !.x = clamp003(n.x, left, right),
               !.y = clamp003(n.y, spacing, boardH - spacing - n.h)]

\* placeSafely(node, { boards, boardW, boardH, spacing: sp }, startBoard) against
\* placeSafely._placed: every result its tries can give. The tries run board by
\* board from startBoard; a board is left without a result only when each of its
\* triesPerBoard draws hits, which needs a candidate on it that hits. first tells
\* the result was drawn by the first try (biShift = 0, t = 0), tried that a try
\* returned it and not the rectangle after the loops.
placeSafely(node, sp, startBoard, placed) ==
  LET w == clamp003(IF node.w = 0 THEN FloorPx((boardW * 40) \div 100) ELSE node.w,
                    8 * PX, boardW - sp * 2)
      h == clamp003(IF node.h = 0 THEN FloorPx((w * 75) \div 100) ELSE node.h,
                    8 * PX, boardH - sp * 2)
      out == [node EXCEPT !.w = w, !.h = h]
      cands(bi) ==
        { [out EXCEPT
             !.x = bi * boardW + FloorPx((kx * Max(PX, boardW - w - sp * 2)) \div RandSteps) + sp,
             !.y = FloorPx((ky * Max(PX, boardH - h - sp * 2)) \div RandSteps) + sp]
          : kx \in RandIdx, ky \in RandIdx }
      hit(c) == overlapsPlaced(c, placed, sp)
      canMiss(bi) == \E c \in cands(bi) : hit(c)
      reached(d) == \A e \in 0 .. (d - 1) : canMiss((startBoard + e) % boards)
      byTry ==
        UNION { { [node |-> c, first |-> f, tried |-> TRUE]
                  : c \in {k \in cands((startBoard + d) % boards) : ~ hit(k)},
                    f \in {g \in BOOLEAN :
                             IF g THEN d = 0 ELSE d > 0 \/ canMiss(startBoard % boards)} }
                : d \in {e \in 0 .. (boards - 1) : reached(e)} }
      bx == (startBoard % boards) * boardW
      last == [out EXCEPT !.x = clamp003(bx + sp, bx, bx + boardW - w - sp),
                          !.y = clamp003(sp, 0, boardH - h - sp)]
  IN byTry \cup (IF reached(boards)
                   THEN {[node |-> last, first |-> FALSE, tried |-> FALSE]}
                   ELSE {})

\* for (const n of src) { ... } of randomise({ acrossBoards: true })
RECURSIVE randomiseAll003(_, _, _, _, _)
randomiseAll003(todo, placed, nextBoard, acc, first) ==
  IF todo = <<>> THEN {[out |-> placed, acc |-> acc, first |-> first]}
  ELSE
    LET n == Head(todo)
        seeded(kw, kh) ==
          LET w == FloorPx((boardW * (28 * RandSteps + 50 * kw)) \div (100 * RandSteps))
              h == FloorPx((w * (60 * RandSteps + 40 * kh)) \div (100 * RandSteps))
          IN [n EXCEPT !.w = w, !.h = h]
    IN UNION { randomiseAll003(Tail(todo), Append(placed, r.node), (nextBoard + 1) % boards,
                               IF r.tried THEN acc \cup {n.id} ELSE acc,
                               IF r.first THEN first \cup {n.id} ELSE first)
               : r \in UNION { placeSafely(seeded(kw, kh), spacing, nextBoard, placed)
                               : kw \in RandIdx, kh \in RandIdx } }

randomise003 ==
  /\ images # <<>>
  /\ \E src \in Shuffles(images) :
       \E r \in randomiseAll003(src, <<>>, 0, {}, {}) :
         /\ images' = [i \in DOMAIN r.out |-> clampToBoards(r.out[i])]
         /\ accepted' = r.acc
         /\ firstTry' = r.first
  /\ selectedId' = null
  /\ lastOp' = "randomise003"
  /\ UNCHANGED <<loaded, calls, gesture, boardsHalf, slot, run, drawn, BOARD_W, BOARD_H, boards, spacing,
                 resizes>>

\* Item.startResize -> onMove: the node after one pointer move of (dx, dy) with
\* corner handle dir
Resized003(node, dir, dx, dy) ==
  LET east == dir \in {"ne", "se"}
      south == dir \in {"sw", "se"}
      west == dir \in {"nw", "sw"}
      north == dir \in {"nw", "ne"}
      w == IF west THEN clamp003(node.w - dx, 10 * PX, 99999 * PX)
           ELSE IF east THEN clamp003(node.w + dx, 10 * PX, 99999 * PX)
           ELSE node.w
      h == IF north THEN clamp003(node.h - dy, 10 * PX, 99999 * PX)
           ELSE IF south THEN clamp003(node.h + dy, 10 * PX, 99999 * PX)
           ELSE node.h
      x == IF west THEN node.x + dx ELSE node.x
      y == IF north THEN node.y + dy ELSE node.y
  IN [node EXCEPT !.x = x, !.y = y, !.w = w, !.h = h]

\* onChange(next): setImages(prev => prev.map(x => x.id === n.id ? next : x))
startResize003 ==
  /\ resizes < MaxResizes
  /\ resizes' = resizes + 1
  /\ \E i \in DOMAIN images, dir \in {"nw", "ne", "sw", "se"}, d \in PointerMoves :
       images' = [images EXCEPT ![i] = Resized003(images[i], dir, d[1], d[2])]
  /\ lastOp' = "resize003"
  /\ accepted' = {}
  /\ firstTry' = {}
  /\ UNCHANGED <<loaded, calls, gesture, boardsHalf, slot, run, drawn, BOARD_W, BOARD_H, boards, spacing,
                 selectedId>>

\* Item drag, move: onChange({ ...node, x: oX + dx, y: oY + dy })
move003 ==
  /\ resizes < MaxResizes
  /\ resizes' = resizes + 1
  /\ \E i \in DOMAIN images, d \in PointerMoves :
       /\ images' = [images EXCEPT ![i] = [@ EXCEPT !.x = @ + d[1], !.y = @ + d[2]]]
       /\ selectedId' = images[i].id
  /\ lastOp' = "move003"
  /\ accepted' = {}
  /\ firstTry' = {}
  /\ UNCHANGED <<loaded, calls, gesture, boardsHalf, slot, run, drawn, BOARD_W, BOARD_H, boards, spacing>>

\* setImages(prev => prev.map(n => clampToBoards(n, boardW, boardH, boards, spacing)))
fixBounds003 ==
  /\ \A i \in DOMAIN images : images[i].x >= -(MaxDrift * boardW)
  /\ images' = [i \in DOMAIN images |-> clampToBoards(images[i])]
  /\ lastOp' = "fixBounds003"
  /\ accepted' = {}
  /\ firstTry' = {}
  /\ UNCHANGED <<loaded, calls, gesture, boardsHalf, slot, run, drawn, BOARD_W, BOARD_H, boards, spacing,
                 resizes, selectedId>>

\* the step of pack's grid: Math.max(spacing, 12)
step003 == Max(spacing, 12 * PX)

\* for (let x = ...; x <= xmax; x += step) { ... } of pack for one board at one y:
\* every free candidate is pushed, each tested against the ones pushed before
\* it (done = true does not leave the loop over x)
RECURSIVE rowPush(_, _, _, _, _)
rowPush(n, y, x, xmax, placed) ==
  IF x > xmax THEN placed
  ELSE LET c == [n EXCEPT !.x = x, !.y = y]
       IN rowPush(n, y, x + step003, xmax,
                  IF ~ overlapsPlaced(c, placed, spacing) THEN Append(placed, c) ELSE placed)

\* the loops over y and the boards bi for one item, both left once done is set
RECURSIVE scanItem003(_, _, _, _)
scanItem003(n, y, bi, placed) ==
  IF y > boardH - n.h - spacing THEN [done |-> FALSE, placed |-> placed]
  ELSE IF bi >= boards THEN scanItem003(n, y + step003, 0, placed)
  ELSE LET pushed == rowPush(n, y, bi * boardW + spacing,
                             (bi + 1) * boardW - n.w - spacing, placed)
       IN IF pushed # placed THEN [done |-> TRUE, placed |-> pushed]
          ELSE scanItem003(n, y, bi + 1, placed)

\* for (const n of src) { ... } of pack: every list placed can end as
RECURSIVE packAll003(_, _)
packAll003(todo, placed) ==
  IF todo = <<>> THEN {placed}
  ELSE LET n == Head(todo)
           s == scanItem003(n, spacing, 0, placed)
       IN IF s.done THEN packAll003(Tail(todo), s.placed)
          ELSE UNION { packAll003(Tail(todo), Append(placed, r.node))
                       : r \in placeSafely(n, spacing, 0, placed) }

\* pack: the sizes are clamped, the list is sorted by area, descending
pack003 ==
  /\ images # <<>>
  /\ Len(images) <= MaxItems
  /\ LET sized ==
           [i \in DOMAIN images |->
              LET n == images[i]
                  w == clamp003(IF n.w = 0 THEN FloorPx((boardW * 40) \div 100) ELSE n.w,
                                8 * PX, boardW - spacing * 2)
                  h == clamp003(IF n.h = 0 THEN FloorPx((w * 75) \div 100) ELSE n.h,
                                8 * PX, boardH - spacing * 2)
              IN [n EXCEPT !.w = w, !.h = h]]
     IN \E placed \in packAll003(sortByArea(sized), <<>>) :
          images' = [i \in DOMAIN placed |-> clampToBoards(placed[i])]
  /\ selectedId' = null
  /\ lastOp' = "pack003"
  /\ accepted' = {}
  /\ firstTry' = {}
  /\ UNCHANGED <<loaded, calls, gesture, boardsHalf, slot, run, drawn, BOARD_W, BOARD_H, boards,
                 spacing, resizes>>

----------------------------------------------------------------------------
(* SPECIFICATIONS *)

\* the placement strategies that scan or fill columns, on every loaded list
Next ==
  \/ packLayout
  \/ packBottom
  \/ editorialSpaced
  \/ editorialSeamless

Spec == Init /\ [][Next]_vars

\* random scatter, on every loaded list
NextScatter ==
  \/ randomiseLayout
  \/ fixBounds

SpecScatter == Init /\ [][NextScatter]_vars

\* adding, resizing and the bounds-fix pass
NextFix ==
  \/ onDropFiles
  \/ startResize
  \/ fixBounds

\* spacing is read by none of these operations
InitFix == Init /\ spacing = 24 * PX

SpecFix == InitFix /\ [][NextFix]_vars

\* decoding and export, on every loaded list of image files
NextExport ==
  \/ imageLoaded
  \/ exportBoards
  \/ exportBoards003

SpecExport == InitExport /\ [][NextExport]_vars

\* part_001: adding files, scatter and the column layouts
Next001 ==
  \/ addFiles001
  \/ randomise001
  \/ editorialSeamless001
  \/ editorial001

Spec001 == Init001 /\ [][Next001]_vars

\* part_001: adding files and the grid pack
NextPack001 ==
  \/ addFiles001
  \/ pack001

SpecPack001 == Init001 /\ [][NextPack001]_vars

\* part_003: adding files and the scatter
NextScatter003 ==
  \/ onAddImages003
  \/ randomise003

SpecScatter003 == Init003 /\ [][NextScatter003]_vars

\* App.jsx: the Boards and W inputs, and the Fix bounds button on the list they
\* leave
NextBounds ==
  \/ boardsInput
  \/ widthInput
  \/ fixBounds

\* the items of a loaded preset file with ids in list order
BoundsLists ==
  UNION { { [k \in 1 .. n |-> [id |-> k, x |-> f[k].x, y |-> f[k].y, w |-> f[k].w, h |-> f[k].h]]
            : f \in [1 .. n -> RawShapes] }
          : n \in 0 .. MaxItems }

InitBounds ==
  /\ BOARD_W \in {200 * PX, 8000 * PX}
  /\ BOARD_H = 200 * PX
  /\ boards \in {1, 2}
  /\ spacing = 24 * PX
  /\ \E data \in BoundsLists : images = normalizeImages(data)
  /\ resizes = 0
  /\ selectedId = null
  /\ run = RunIdle
  /\ boardsHalf = 0
  /\ slot = NoSlot
  /\ firstTry = {}
  /\ gesture = NoGesture
  /\ loaded = {}
  /\ calls = <<>>
  /\ lastOp = "load"
  /\ accepted = {}
  /\ drawn = <<>>

SpecBounds == InitBounds /\ [][NextBounds]_vars

\* part_001: adding files, a drag, the grid pack and the Fix bounds button
NextBounds001 ==
  \/ addFiles001
  \/ move001
  \/ pack001
  \/ fixBounds001

SpecBounds001 == Init001 /\ [][NextBounds001]_vars

\* part_003: adding files, a resize, a drag and the Fix bounds button
NextFix003 ==
  \/ onAddImages003
  \/ startResize003
  \/ move003
  \/ fixBounds003

SpecFix003 == Init003 /\ [][NextFix003]_vars

\* App.jsx: image decodes, drag and resize gestures, export
NextGesture ==
  \/ imageLoaded
  \/ onDown
  \/ onHandleDown
  \/ onMove
  \/ onUp
  \/ exportBoards

SpecGesture == InitGesture /\ [][NextGesture]_vars

\* part_003: adding files, a resize and the grid pack
NextPack003 ==
  \/ onAddImages003
  \/ startResize003
  \/ pack003

SpecPack003 == Init003 /\ [][NextPack003]_vars

\* App.jsx: selection, the z-index helpers and Delete
NextLayers ==
  \/ onSelect
  \/ onSpreadClick
  \/ sendBackward
  \/ bringForward
  \/ bringToFront
  \/ sendToBack
  \/ deleteSelected

SpecLayers == InitLayers /\ [][NextLayers]_vars

\* App.jsx: one placement strategy entered on the loaded list, its loops run one
\* iteration at a time; a handler that was entered runs on until it returns
RunStep == tryStep \/ scanStep \/ finishRun

NextRun ==
  \/ start("randomise")
  \/ start("pack")
  \/ startMap("packBottom")
  \/ startMap("editorialSpaced")
  \/ startMap("editorialSeamless")
  \/ tryStep
  \/ scanStep
  \/ finishRun

SpecRun == InitRun /\ [][NextRun]_vars /\ WF_vars(RunStep)

\* App.jsx: the controls of the board configuration, preset files and the slot
NextConfig ==
  \/ boardsInput
  \/ sizePresetSelect
  \/ widthInput
  \/ heightInput
  \/ presetLoad
  \/ savePresetSlot
  \/ loadPresetSlot

SpecConfig == InitConfig /\ [][NextConfig]_vars

\* part_002, second program: add files, Auto Spread (spaced, tight), Pack
Next002 ==
  \/ onDropFiles002
  \/ autoSpread(FALSE)
  \/ autoSpread(TRUE)
  \/ packTop

Spec002 == Init002 /\ [][Next002]_vars

\* App.jsx: the Boards input and Pack
NextPack ==
  \/ boardsInput
  \/ packLayout

SpecPack == Init /\ [][NextPack]_vars

\* App.jsx: the two editorial layouts on up to MaxLayers items
NextColumns ==
  \/ editorialSpaced
  \/ editorialSeamless

SpecColumns == InitColumns /\ [][NextColumns]_vars
----------------------------------------------------------------------------
(* CLAIMS *)

\* the items of the list that were accepted by the retry loop or the grid scan
AcceptedPairs ==
  { <<i, j>> \in (DOMAIN images) \X (DOMAIN images) :
      i < j /\ images[i].id \in accepted /\ images[j].id \in accepted }

\* C1: after randomiseLayout (its result normalized by setImages), no two items
\* accepted by the retry loop or by the fallback scan overlap at spacing.
C1_RandomiseNoOverlap ==
  lastOp = "randomise" =>
    \A p \in AcceptedPairs :
      ~ rectsOverlapWithMargin(images[p[1]], images[p[2]], spacing)

\* C2: after packLayout (its result normalized by setImages), no two items that the
\* grid scan accepted overlap at spacing.
C2_PackNoOverlap ==
  lastOp = "pack" =>
    \A p \in AcceptedPairs :
      ~ rectsOverlapWithMargin(images[p[1]], images[p[2]], spacing)

\* C2 witness: packLayout has put two accepted items on one board, spacing > 0
C2_TwoPackedOnOneBoard ==
  /\ lastOp = "pack"
  /\ spacing > 0
  /\ \E p \in AcceptedPairs :
       images[p[1]].x \div BOARD_W = images[p[2]].x \div BOARD_W

PlacementOps == {"randomise", "pack", "packBottom", "editorialSpaced", "editorialSeamless"}

\* C3: every placement operation outputs the items it was given: the same set of
\* ids, each id once (the list keeps its length).
C3_SameItems ==
  [][ lastOp' \in PlacementOps =>
        (Ids(images') = Ids(images) /\ Len(images') = Len(images)) ]_vars

\* the natural size of the item's image is known
NaturalSizeKnown(n) ==
  n.imageEl.attached /\ n.imageEl.naturalWidth # 0 /\ n.imageEl.naturalHeight # 0

\* the ops of item n among ops
OpsOf(ops, n) == SelectSeq(ops, LAMBDA op : op.id = n.id)

\* hit = intersect(itemFrameRect, boardRect)
FrameHit(n, b) == intersectRect(n.x, n.y, n.w, n.h, b * BOARD_W, 0, BOARD_W, BOARD_H)

\* the boards the frame of n has a positive-area intersection with
FrameBoards(n) == {b \in 0 .. (boards - 1) : FrameHit(n, b) # NoRect}

\* C4: an item with a known natural size whose frame spans exactly two adjacent
\* boards has exactly two ops over all boards; their dw sum to the frame's width
\* and so do their sw multiplied by scale.
C4_TwoBoardSplit ==
  \A i \in DOMAIN images :
    LET n == images[i]
        ops == OpsOf(drawBoards(0), n)
    IN (NaturalSizeKnown(n) /\ \E b \in 0 .. (boards - 2) : FrameBoards(n) = {b, b + 1})
         => /\ Len(ops) = 2
            /\ ops[1].dw + ops[2].dw = n.w
            /\ ops[1].sw + ops[2].sw = n.w

\* C5: cropOpsForBoard has an op for item n on board b exactly when the natural
\* size of n is known and its frame meets the board; the op's destination is that
\* intersection in board-local coordinates.
C5_OpIsFrameOnBoard ==
  \A i \in DOMAIN images, b \in 0 .. (boards - 1) :
    LET n == images[i]
        hit == FrameHit(n, b)
        ops == OpsOf(cropOpsForBoard(images, b), n)
    IN /\ (ops # <<>>) <=> (NaturalSizeKnown(n) /\ hit # NoRect)
       /\ \A k \in DOMAIN ops :
            /\ ops[k].dx = hit.x - b * BOARD_W
            /\ ops[k].dy = hit.y
            /\ ops[k].dw = hit.w
            /\ ops[k].dh = hit.h

\* the source rectangle of a draw call, multiplied by scale, has the size of its
\* destination
UniformScale(op) == op.sw = op.dw /\ op.sh = op.dh

\* the ops of cropOpsForBoard of App.jsx keep the aspect
CropKeepsAspect ==
  \A b \in 0 .. (boards - 1) :
    LET ops == cropOpsForBoard(images, b)
    IN \A k \in DOMAIN ops : UniformScale(ops[k])

\* the draw calls of the exports made keep the aspect
DrawnKeepsAspect ==
  \A k \in DOMAIN drawn :
    (drawn[k].img.naturalWidth # 0 /\ drawn[k].img.naturalHeight # 0)
      => UniformScale(drawn[k])

\* the draw calls of part_002's export loop keep the aspect
CoverKeepsAspect ==
  \A i \in DOMAIN images, b \in 0 .. (boards - 1) :
    NaturalSizeKnown(images[i]) =>
      LET ops == drawCover(images[i], b)
      IN \A k \in DOMAIN ops : UniformScale(ops[k])

\* C6: every op drawn by an export has sw * scale = dw and sh * scale = dh for
\* scale = max(w / naturalW, h / naturalH), whatever the frame and the natural size.
C6_DrawnKeepsAspect == CropKeepsAspect /\ DrawnKeepsAspect /\ CoverKeepsAspect

\* C7: the bounds-fix pass is idempotent: applied to a list that normalizeImages
\* produced (a loaded file, an added or a resized item), it changes nothing.
C7_FixBoundsIdempotent ==
  [][ lastOp' = "fixBounds" => images' = images ]_vars

\* C7 witness: the pass has run on a list with an item wider than a board and an
\* item pinned to the right edge of its board
C7_FixedClampedItems ==
  /\ lastOp = "fixBounds"
  /\ \E i \in DOMAIN images : images[i].w > BOARD_W
  /\ \E i \in DOMAIN images :
       images[i].x % BOARD_W > 0 /\ (images[i].x + images[i].w) % BOARD_W = 0

\* the item lies fully within one board slice
InOneBoard(n) ==
  /\ \E b \in 0 .. (boards - 1) : b * BOARD_W <= n.x /\ n.x + n.w <= (b + 1) * BOARD_W
  /\ 0 <= n.y
  /\ n.y + n.h <= BOARD_H

\* C8: after the bounds-fix pass every item lies fully within one board slice (so
\* w <= BOARD_W and h <= BOARD_H).
C8_WithinOneBoard ==
  lastOp = "fixBounds" => \A i \in DOMAIN images : InOneBoard(images[i])

\* C9: after any placement operation every item of the list has w > 0 and h > 0.
C9_PositiveSize ==
  lastOp \notin {"load", "addFiles001"} =>
    \A i \in DOMAIN images : images[i].w > 0 /\ images[i].h > 0

\* cropOpsForBoard of App.jsx has no op for an item without a natural size
CropSkipsUnknown ==
  \A i \in DOMAIN images, b \in 0 .. (boards - 1) :
    ~ NaturalSizeKnown(images[i]) => OpsOf(cropOpsForBoard(images, b), images[i]) = <<>>

\* the same, of part_003
CropSkipsUnknown003 ==
  \A i \in DOMAIN images, b \in 0 .. (boards - 1) :
    ~ NaturalSizeKnown(images[i]) => OpsOf(cropOpsForBoard003(images, b), images[i]) = <<>>

\* C10: for an item whose natural size is not known (not decoded, or decoded with
\* naturalWidth or naturalHeight 0) cropOpsForBoard emits no op on any board.
C10_NoOpWithoutNaturalSize == CropSkipsUnknown /\ CropSkipsUnknown003

\* C11: an export request made while some item with a source has no known
\* natural size (its image is not decoded yet) is refused: exportBoards renders
\* and downloads board canvases only when every item's natural size is known.
C11_NoExportBeforeDecode ==
  lastOp = "export" => \A i \in DOMAIN images : NaturalSizeKnown(images[i])


\* the position of the item with this id in images (its paint order on screen)
PaintIndex(id) == CHOOSE i \in DOMAIN images : images[i].id = id

\* C12: on every board the ops drawn by exportBoards are in ascending paint
\* order: when item A is before item B in images and both have an op on a board,
\* A's op is drawn before B's.
C12_OpsInPaintOrder ==
  lastOp = "export" =>
    \A i, j \in DOMAIN drawn :
      (i < j /\ drawn[i].board = drawn[j].board)
        => PaintIndex(drawn[i].id) < PaintIndex(drawn[j].id)

\* an export that drew two items on one board
C12_TwoOpsOnOneBoard ==
  /\ lastOp = "export"
  /\ \E i, j \in DOMAIN drawn :
       i < j /\ drawn[i].board = drawn[j].board /\ drawn[i].id # drawn[j].id


ZOps == {"sendBackward", "bringForward", "bringToFront", "sendToBack"}

\* the items other than the selected one, in list order
Others(list) == SelectSeq(list, LAMBDA n : n.id # selectedId)

\* C13: every z-index helper leaves images a permutation of what it was (same
\* length, same items, none twice); bringToFront puts the selected item last
\* and sendToBack puts it first, the others keeping their relative order; with
\* nothing selected each helper leaves images as it was.
C13_ZOrderPermutes ==
  [][ lastOp' \in ZOps =>
        /\ Len(images') = Len(images)
        /\ { images'[i] : i \in DOMAIN images' } = { images[i] : i \in DOMAIN images }
        /\ Cardinality(Ids(images')) = Len(images')
        /\ selectedId = null => images' = images
        /\ (lastOp' = "bringToFront" /\ selectedId \in Ids(images)) =>
             (Last(images').id = selectedId /\ Others(images') = Others(images))
        /\ (lastOp' = "sendToBack" /\ selectedId \in Ids(images)) =>
             (Head(images').id = selectedId /\ Others(images') = Others(images))
    ]_vars

\* bringToFront has moved the first of three items behind the two others
C13_FirstBroughtToFront ==
  /\ lastOp = "bringToFront"
  /\ Len(images) = 3
  /\ selectedId = 1
  /\ <<images[1].id, images[2].id, images[3].id>> = <<2, 3, 1>>


\* C14: every placement strategy that is started returns: its loops end (the
\* retries at maxTries, the scan because x and y advance by max(8, spacing) > 0)
\* for every item list and valid configuration, spacing = 0 and items wider
\* than a board included.
C14_StrategiesTerminate == (run.op # "idle") ~> (run.op = "idle")

\* packLayout has returned at spacing 0 with an item wider than a board, for
\* which the scan found no position
C14_WideItemFellThrough ==
  /\ lastOp = "pack"
  /\ run.op = "idle"
  /\ spacing = 0
  /\ \E i \in DOMAIN images : images[i].w > BOARD_W /\ images[i].id \notin accepted


\* C15: in every reachable state the configuration is valid: boards is a whole
\* number in 1..MAX_BOARDS and BOARD_W, BOARD_H are positive, whatever the
\* control inputs, size preset selections, preset file loads and slot loads.
C15_ConfigValid ==
  /\ boardsHalf = 0
  /\ boards \in 1 .. MAX_BOARDS
  /\ BOARD_W > 0
  /\ BOARD_H > 0


\* C16: after Auto Spread or Pack of the auto-grow program there are at most
\* MAX_BOARDS boards, no two items overlap, and every item lies inside
\* [0, boards * boardW] x [0, boardH].
C16_AutoGrowFits ==
  lastOp \in {"autoSpread", "packTop"} =>
    /\ boards <= MAX_BOARDS
    /\ \A i, j \in DOMAIN images :
         i < j => ~ rectsOverlapWithMargin(images[i], images[j], 0)
    /\ \A i \in DOMAIN images :
         /\ 0 <= images[i].x /\ images[i].x + images[i].w <= boards * boardW
         /\ 0 <= images[i].y /\ images[i].y + images[i].h <= boardH


\* C17: an item that part_001's randomise could not place within its tries (it is
\* not among the accepted ids) has the fallback rectangle, which is a valid
\* rectangle inside the spread: w > 0, h > 0, 0 <= x, x + w <= boards * boardW,
\* 0 <= y, y + h <= boardH.
C17_FallbackInsideSpread ==
  lastOp = "randomise001" =>
    \A i \in DOMAIN images :
      images[i].id \notin accepted =>
        /\ images[i].w > 0 /\ images[i].h > 0
        /\ 0 <= images[i].x /\ images[i].x + images[i].w <= boards * boardW
        /\ 0 <= images[i].y /\ images[i].y + images[i].h <= boardH


Gutter == IF lastOp = "editorialSpaced" THEN spacing ELSE 0

\* items i and j are in the same column of the same board: the columns of a
\* board start at distinct x, and every item of a column has the column's x
SameColumn(i, j) == images[i].x = images[j].x

\* C19: after editorialSpaced or editorialSeamless (normalizeImages included) no
\* two items of the same column of the same board overlap under the gutter,
\* however many items there are.
C19_ColumnItemsApart ==
  lastOp \in {"editorialSpaced", "editorialSeamless"} =>
    \A i, j \in DOMAIN images :
      (i < j /\ SameColumn(i, j))
        => ~ rectsOverlapWithMargin(images[i], images[j], Gutter)


\* the sum of the heights of the items placed before item i in its column
RECURSIVE HeightsBefore(_, _)
HeightsBefore(i, j) ==
  IF j >= i THEN 0
  ELSE (IF SameColumn(i, j) THEN images[j].h ELSE 0) + HeightsBefore(i, j + 1)

\* C20: after editorialSeamless (gutter 0) the y of every item equals exactly the
\* sum of the heights of the items placed before it in its column.
C20_SeamlessStacking ==
  lastOp = "editorialSeamless" =>
    \A i \in DOMAIN images : images[i].y = HeightsBefore(i, 1)


\* the column width of the editorial layout that ran last
ColW ==
  IF lastOp = "editorialSpaced"
    THEN (BOARD_W - (columnsPerBoard - 1) * spacing) \div columnsPerBoard
    ELSE BOARD_W \div columnsPerBoard

ColumnSlots == (0 .. (boards - 1)) \X (0 .. (columnsPerBoard - 1))

\* the left edge of column s[2] of board s[1]
ColumnX(s) == s[1] * BOARD_W + s[2] * (ColW + Gutter)

\* the (board, column) item i stands in, by its x
SlotOf(i) ==
  IF \E s \in ColumnSlots : ColumnX(s) = images[i].x
    THEN CHOOSE s \in ColumnSlots : ColumnX(s) = images[i].x
    ELSE <<0, 0>>

\* the running heights when item i is processed: every item before it in the
\* list has raised its own column by its placed height plus the gutter
RECURSIVE RunningHeights(_, _, _)
RunningHeights(i, j, track) ==
  IF j >= i THEN track
  ELSE RunningHeights(i, j + 1,
                      [track EXCEPT ![SlotOf(j)] = @ + images[j].h + Gutter])

\* C21: after editorialSpaced or editorialSeamless every item, in list order,
\* stands in the (board, column) whose running height was minimal when it was
\* processed (lowest board, then lowest column on a tie), at that column's x and
\* at that running height, the running heights being raised by the placed
\* height plus the gutter, only in the column of the item placed.
C21_MinimalColumnChosen ==
  lastOp \in {"editorialSpaced", "editorialSeamless"} =>
    \A i \in DOMAIN images :
      LET track == RunningHeights(i, 1, zeroTrack(columnsPerBoard))
          best == bestSlot(track, columnsPerBoard)
      IN /\ images[i].x = ColumnX(best)
         /\ images[i].y = track[best]


\* the candidate origins of the grid scan for item i that come before the origin
\* the item has, in the order board, then y, then x
EarlierOrigins(i) ==
  LET n == images[i]
      b0 == n.x \div BOARD_W
  IN { p \in (UNION {GridX(b, n.w) : b \in 0 .. (boards - 1)}) \X GridY(n.h) :
         \/ p[1] \div BOARD_W < b0
         \/ p[1] \div BOARD_W = b0 /\ p[2] < n.y
         \/ p[1] \div BOARD_W = b0 /\ p[2] = n.y /\ p[1] < n.x }

\* item i, put at origin p, overlaps at spacing an item accepted before it
HitsAccepted(i, p) ==
  \E j \in 1 .. (i - 1) :
    /\ images[j].id \in accepted
    /\ rectsOverlapWithMargin([images[i] EXCEPT !.x = p[1], !.y = p[2]], images[j], spacing)

\* C22: after packLayout every accepted item stands on a grid origin (step
\* max(8, spacing) from the top left corner of a board) where it overlaps at
\* spacing no item accepted before it, and every origin earlier in the order
\* board, then y, then x overlapped one.
C22_FirstFreeOrigin ==
  lastOp \in {"pack", "pack001"} =>
    \A i \in DOMAIN images :
      images[i].id \in accepted =>
        /\ images[i].x \in GridX(images[i].x \div BOARD_W, images[i].w)
        /\ images[i].y \in GridY(images[i].h)
        /\ ~ HitsAccepted(i, <<images[i].x, images[i].y>>)
        /\ \A p \in EarlierOrigins(i) : HitsAccepted(i, p)


\* candidate c lies in the interior of a board, inset by spacing on every side
InsetInBoard(c) ==
  \E b \in 0 .. (boards - 1) :
    /\ b * BOARD_W + spacing <= c.x
    /\ c.x <= (b + 1) * BOARD_W - spacing - c.w
    /\ spacing <= c.y
    /\ c.y <= BOARD_H - spacing - c.h

\* C23: every position the retry loop of random scatter draws and accepts for an
\* item of size w x h lies in one board's interior inset by spacing:
\* b*boardW + spacing <= x <= (b+1)*boardW - spacing - w and
\* spacing <= y <= boardH - spacing - h.
C23_CandidatesInset ==
  [][(run.phase = "tries" /\ Len(run'.out) = Len(run.out) + 1)
       => InsetInBoard(Last(run'.out))]_vars


\* C24: in round-robin mode, when random scatter accepted every item at the
\* first attempt made for it, the k-th processed item (k from 0) stands on board
\* k mod boards.
C24_RoundRobin ==
  (lastOp = "randomise003" /\ firstTry = Ids(images)) =>
    \A k \in DOMAIN images : images[k].x \div boardW = (k - 1) % boards


\* C25: the bounds-fix pass never moves an item to another board: an item whose
\* x lay inside the spread before the pass has the same board index
\* floor(x / boardW) after it, also when it is wider than the space left on its
\* board.
C25_BoardKept ==
  [][ lastOp' \in {"fixBounds", "fixBounds001"} =>
        \A i \in DOMAIN images :
          (0 <= images[i].x /\ images[i].x < SPREAD_W)
            => /\ i \in DOMAIN images'
               /\ images'[i].id = images[i].id
               /\ images'[i].x \div BOARD_W = images[i].x \div BOARD_W ]_vars

\* C25 witness: the pass has run on a spread of boards 200 wide and has left an
\* item wider than a board at the left edge of its board, and an item pinned to
\* the right edge of its board
C25_WideItemKeptOnBoard ==
  /\ lastOp = "fixBounds"
  /\ BOARD_W = 200 * PX
  /\ \E i \in DOMAIN images :
       images[i].w > BOARD_W /\ images[i].x % BOARD_W = 0
  /\ \E i \in DOMAIN images :
       images[i].w < BOARD_W /\ (images[i].x + images[i].w) % BOARD_W = 0


\* C26: in part_003 the Fix bounds pass is idempotent: run a second time it
\* changes no item, also after a resize has made an item wider than
\* boardW - 2 * spacing or taller than boardH - 2 * spacing, or a drag has put it
\* at x < 0.
C26_ClampToBoardsIdempotent ==
  [][ (lastOp = "fixBounds003" /\ lastOp' = "fixBounds003") => images' = images ]_vars


\* C27: exportBoards renders the boards one at a time in the order 0 .. boards - 1:
\* no canvas call of a board is made after a call of a later board, the calls on
\* a board are the background fill, if it is drawn, followed by the board's
\* image ops in the order of cropOpsForBoard, and a filled export fills every board.
C27_BoardsInOrder ==
  lastOp = "export" =>
    /\ \A j, k \in DOMAIN calls : j < k => calls[j].board <= calls[k].board
    /\ \A j, k \in DOMAIN calls :
         (calls[j].board = calls[k].board /\ calls[k].call = "fillRect") => j >= k
    /\ \A b \in 0 .. (boards - 1) :
         LET ofBoard == SelectSeq(calls, LAMBDA c : c.board = b /\ c.call = "drawImage")
             ops == cropOpsForBoard(images, b)
         IN /\ Len(ofBoard) = Len(ops)
            /\ \A k \in DOMAIN ops : ofBoard[k].id = ops[k].id
    /\ (\E k \in DOMAIN calls : calls[k].call = "fillRect")
         => \A b \in 0 .. (boards - 1) :
              \E k \in DOMAIN calls : calls[k].call = "fillRect" /\ calls[k].board = b

\* C27 witness: an export with a background has drawn images on two boards
C27_TwoBoardsFilledAndDrawn ==
  /\ lastOp = "export"
  /\ \E k \in DOMAIN calls : calls[k].call = "fillRect"
  /\ \E j, k \in DOMAIN calls :
       /\ calls[j].call = "drawImage" /\ calls[k].call = "drawImage"
       /\ calls[j].board = 0 /\ calls[k].board = 1


\* C28: however the completion of an item's image decode interleaves with a
\* drag or a resize of that item, the item's decoded image, once attached, is
\* not cleared or replaced, and once every source has decoded export is not
\* refused.
C28_DecodedImageKept ==
  /\ [][ \A i \in DOMAIN images :
           images[i].imageEl.live =>
             \A k \in DOMAIN images' :
               images'[k].id = images[i].id => images'[k].imageEl = images[i].imageEl ]_vars
  /\ [](lastOp = "exportRefused" => \E i \in DOMAIN images : images[i].id \notin loaded)


\* C29: in every reachable state of App.jsx every item lies inside the current
\* spread, 0 <= x, x + w <= boards * BOARD_W, 0 <= y, y + h <= BOARD_H, also
\* right after the Boards or the W input has reduced the spread.
C29_ItemsInsideSpread ==
  \A i \in DOMAIN images :
    /\ 0 <= images[i].x
    /\ images[i].x + images[i].w <= boards * BOARD_W
    /\ 0 <= images[i].y
    /\ images[i].y + images[i].h <= BOARD_H


\* C30: in part_003, pack places every item of the list once: the list it sets
\* has the length of the list it was given and holds every id of it once.
C30_PackPlacesEachOnce ==
  [][ lastOp' = "pack003" =>
        /\ Len(images') = Len(images)
        /\ \A i \in DOMAIN images :
             Cardinality({k \in DOMAIN images' : images'[k].id = images[i].id}) = 1 ]_vars

====
